---- MODULE Spec2Model ----
(***************************************************************************)
(* Bird-strike warning platform: the predator-sound player, the analyzer's *)
(* predator status, the strategic engine and the scoring functions.        *)
(*                                                                         *)
(* Sources: src/backend/strategic_response.py,                             *)
(*          src/backend/bird_communication_system.py, src/backend/app.py,  *)
(*          src/backend/services/strategic_service.py                      *)
(***************************************************************************)
EXTENDS Integers, Sequences, FiniteSets, TLC

VARIABLES
    stop_playback_event,     \* PredatorSoundLibrary._stop_playback_event (is_set)
    playback_thread,         \* PredatorSoundLibrary._playback_thread (NoThread = None)
    threads,                 \* every playback thread ever created: position and sound
    caller,                  \* the thread calling play_/stop_predator_sound: position
    is_predator_playing,     \* analyzer.is_predator_playing
    predator_play_start,     \* analyzer.predator_play_start (NoTime = None)
    predator_play_duration,  \* analyzer.predator_play_duration
    now,                     \* time.time(), seconds
    current_recommendation,  \* NextActionPanel.current_recommendation
    response_history,        \* StrategicResponseSystem.response_history
    processed,               \* number of detections handed to update_recommendation
    communication_history,   \* analyzer.communication_history
    app_communication_history, \* app.py module-level communication_history
    appended,                \* entries appended so far to the store under test
    store,                   \* the bounded store a history run exercises
    call,                    \* last call of a pure function: arguments and result
    loggers,                 \* executor threads inside update_recommendation: position
    executed,                \* number of automated actions executed (and logged) so far
    initialized,             \* StrategicResponseService.initialized
    reply,                   \* latest request to the strategic service and its result
    stops_in_row,            \* completed stop_predator_sound calls since the last start
    db,                      \* rows the persistence store holds: detections, alerts
    broadcasts,              \* alerts broadcast to the websocket listeners
    service_recommendation,  \* StrategicResponseService.current_recommendation
    tasks                    \* requests in flight in the service: position and locals

vars == <<stop_playback_event, playback_thread, threads, caller,
          is_predator_playing, predator_play_start, predator_play_duration, now,
          current_recommendation, response_history, processed,
          communication_history, app_communication_history, appended, store, call,
          loggers, executed, initialized, reply, stops_in_row, db, broadcasts,
          service_recommendation, tasks>>

playbackVars == <<stop_playback_event, playback_thread, threads, caller>>
statusVars == <<is_predator_playing, predator_play_start, predator_play_duration>>
engineVars == <<current_recommendation, response_history, processed>>
historyVars == <<communication_history, app_communication_history, appended, store>>
serviceVars == <<loggers, executed, initialized, reply, db, broadcasts,
                 service_recommendation, tasks>>

----------------------------------------------------------------------------
(* Bounds of the model *)

\* playback threads created in one behaviour
MaxThreads == 3
\* detections processed by the engine in one behaviour
MaxDetections == 2
\* number of times a whole status duration (9999 s) may elapse
MaxLongWaits == 1
\* time.time() at start-up (positive, as epoch seconds are)
StartTime == 1
\* entries appended beyond a store's limit
MaxOverflow == 3
\* consecutive stop_predator_sound calls that are told apart
MaxStopsCounted == 2
\* detections of one species processed in a row by the engine
MaxSameSpecies == 7
\* detections of one monitoring stream
MaxStream == 7
\* detections BirdNET reports for one audio chunk
MaxChunk == 2

(* Program constants *)

\* self._playback_thread = None
NoThread == 0
\* self.predator_play_start = None
NoTime == 0
\* self._playback_thread.join(timeout=2)
JOIN_TIMEOUT == 2
\* update_predator_status(True, 9999)
ARBITRARY_LONG_DURATION == 9999

ThreadIds == 1..MaxThreads

(* The loaded sound library (sound_cache): the names found in the sounds      *)
(* directory and the length pygame reports for each. One sound is shorter and *)
(* one longer than the join timeout.                                          *)
SoundCache == {"hawk_screech", "eagle_cry"}

\* sound.get_length(), seconds
SoundLength(s) == IF s = "eagle_cry" THEN 5 ELSE 1

\* names a caller may ask for; "hawk_call" is the endpoint's default and not loaded
RequestedSounds == SoundCache \cup {"hawk_call"}

----------------------------------------------------------------------------
(* Analyzer: predator status *)

\* update_predator_status(is_playing, duration): the three fields after the call
update_predator_status(is_playing, duration) ==
    [playing |-> is_playing,
     start |-> IF is_playing THEN now ELSE NoTime,
     duration |-> IF is_playing THEN duration ELSE 0]

SetStatus(is_playing, duration) ==
    LET s == update_predator_status(is_playing, duration)
    IN /\ is_predator_playing' = s.playing
       /\ predator_play_start' = s.start
       /\ predator_play_duration' = s.duration

\* is_predator_sound_active()
is_predator_sound_active ==
    IF (~is_predator_playing) \/ predator_play_start = NoTime
    THEN FALSE
    ELSE IF predator_play_duration > 0
         THEN (now - predator_play_start) < predator_play_duration
         ELSE FALSE

----------------------------------------------------------------------------
(* Playback threads *)

\* Thread.is_alive(): started and target not yet returned
Alive(t) == threads[t].pc \in {"begin", "check", "sleeping", "finally"}

\* inside the while loop: status set, stop event not yet observed
Looping(t) == threads[t].pc \in {"check", "sleeping"}

Born == {t \in ThreadIds : threads[t].pc # "unborn"}

\* playback_loop, line 197-198: update_predator_status(True, 9999)
ThreadBegin(t) ==
    /\ threads[t].pc = "begin"
    /\ SetStatus(TRUE, ARBITRARY_LONG_DURATION)
    /\ threads' = [threads EXCEPT ![t].pc = "check"]
    /\ UNCHANGED <<stop_playback_event, playback_thread, caller, now>>
    /\ UNCHANGED engineVars /\ UNCHANGED historyVars /\ UNCHANGED call /\ UNCHANGED serviceVars
    /\ UNCHANGED stops_in_row

\* the loop going on whatever the stop event says
ThreadCheck_IgnoresStop(t) ==
    /\ threads[t].pc = "check"
    /\ threads' = [threads EXCEPT ![t].pc = "sleeping"]
    /\ UNCHANGED <<stop_playback_event, playback_thread, caller, now>>
    /\ UNCHANGED statusVars
    /\ UNCHANGED engineVars /\ UNCHANGED historyVars /\ UNCHANGED call /\ UNCHANGED serviceVars
    /\ UNCHANGED stops_in_row

\* playback_loop, line 199-201: while not stop event: sound.play()
ThreadCheck(t) ==
    /\ threads[t].pc = "check"
    /\ threads' = [threads EXCEPT
                     ![t].pc = IF stop_playback_event THEN "finally" ELSE "sleeping"]
    /\ UNCHANGED <<stop_playback_event, playback_thread, caller, now>>
    /\ UNCHANGED statusVars
    /\ UNCHANGED engineVars /\ UNCHANGED historyVars /\ UNCHANGED call /\ UNCHANGED serviceVars
    /\ UNCHANGED stops_in_row

\* playback_loop, line 202: time.sleep(duration) returns
ThreadWake(t) ==
    /\ threads[t].pc = "sleeping"
    /\ threads' = [threads EXCEPT ![t].pc = "check"]
    /\ UNCHANGED <<stop_playback_event, playback_thread, caller, now>>
    /\ UNCHANGED statusVars
    /\ UNCHANGED engineVars /\ UNCHANGED historyVars /\ UNCHANGED call /\ UNCHANGED serviceVars
    /\ UNCHANGED stops_in_row

\* playback_loop, line 205-208: finally: update_predator_status(False)
ThreadFinally(t) ==
    /\ threads[t].pc = "finally"
    /\ SetStatus(FALSE, 0)
    /\ threads' = [threads EXCEPT ![t].pc = "done"]
    /\ UNCHANGED <<stop_playback_event, playback_thread, caller, now>>
    /\ UNCHANGED engineVars /\ UNCHANGED historyVars /\ UNCHANGED call /\ UNCHANGED serviceVars
    /\ UNCHANGED stops_in_row

----------------------------------------------------------------------------
(* The caller of play_predator_sound / stop_predator_sound.  The endpoints   *)
(* are coroutines of one event loop that call the library synchronously, so  *)
(* calls do not overlap each other; they do interleave with the playback     *)
(* threads.                                                                  *)

Idle == [pc |-> "idle", op |-> "none", sound |-> "none", result |-> "none"]

\* the lookup made first and the stop left out
CallPlay_LookupFirst(s) ==
    /\ caller.pc = "idle"
    /\ Cardinality(Born) < MaxThreads
    /\ caller' = [pc |-> "play_lookup", op |-> "play", sound |-> s, result |-> "none"]
    /\ UNCHANGED <<stop_playback_event, playback_thread, threads, now>>
    /\ UNCHANGED statusVars
    /\ UNCHANGED engineVars /\ UNCHANGED historyVars /\ UNCHANGED call /\ UNCHANGED serviceVars
    /\ UNCHANGED stops_in_row

\* activate_predator_sound -> play_predator_sound(sound_name)
CallPlay(s) ==
    /\ caller.pc = "idle"
    /\ Cardinality(Born) < MaxThreads
    /\ caller' = [pc |-> "stop_set", op |-> "play", sound |-> s, result |-> "none"]
    /\ UNCHANGED <<stop_playback_event, playback_thread, threads, now>>
    /\ UNCHANGED statusVars
    /\ UNCHANGED engineVars /\ UNCHANGED historyVars /\ UNCHANGED call /\ UNCHANGED serviceVars
    /\ UNCHANGED stops_in_row

\* endpoint stop_predator_sound -> stop_predator_sound()
CallStop ==
    /\ caller.pc = "idle"
    /\ caller' = [pc |-> "stop_set", op |-> "stop", sound |-> "none", result |-> "none"]
    /\ UNCHANGED <<stop_playback_event, playback_thread, threads, now>>
    /\ UNCHANGED statusVars
    /\ UNCHANGED engineVars /\ UNCHANGED historyVars /\ UNCHANGED call /\ UNCHANGED serviceVars
    /\ UNCHANGED stops_in_row

\* stop_predator_sound, line 223: self._stop_playback_event.set()
StopSet ==
    /\ caller.pc = "stop_set"
    /\ stop_playback_event' = TRUE
    /\ caller' = [caller EXCEPT !.pc = "stop_join"]
    /\ UNCHANGED <<playback_thread, threads, now>>
    /\ UNCHANGED statusVars
    /\ UNCHANGED engineVars /\ UNCHANGED historyVars /\ UNCHANGED call /\ UNCHANGED serviceVars
    /\ UNCHANGED stops_in_row

\* join(timeout=2) gives up on a thread that is inside a time.sleep(duration)
\* longer than the timeout; a thread outside such a sleep reaches its next
\* check of the stop event before the timeout
JoinMayTimeOut(t) ==
    /\ threads[t].pc = "sleeping"
    /\ SoundLength(threads[t].sound) > JOIN_TIMEOUT

\* stop_predator_sound, line 224-225: if thread and is_alive(): join(timeout=2)
StopJoin ==
    /\ caller.pc = "stop_join"
    /\ \/ playback_thread = NoThread
       \/ /\ playback_thread # NoThread
          /\ ~Alive(playback_thread)
       \/ /\ playback_thread # NoThread
          /\ JoinMayTimeOut(playback_thread)
    /\ caller' = [caller EXCEPT !.pc = "stop_clear"]
    /\ UNCHANGED <<stop_playback_event, playback_thread, threads, now>>
    /\ UNCHANGED statusVars
    /\ UNCHANGED engineVars /\ UNCHANGED historyVars /\ UNCHANGED call /\ UNCHANGED serviceVars
    /\ UNCHANGED stops_in_row

\* stop_predator_sound, line 226-231: self._playback_thread = None; mixer.stop()
StopClear ==
    /\ caller.pc = "stop_clear"
    /\ playback_thread' = NoThread
    /\ caller' = [caller EXCEPT !.pc = "stop_status"]
    /\ UNCHANGED <<stop_playback_event, threads, now>>
    /\ UNCHANGED statusVars
    /\ UNCHANGED engineVars /\ UNCHANGED historyVars /\ UNCHANGED call /\ UNCHANGED serviceVars
    /\ UNCHANGED stops_in_row

\* stop_predator_sound returning without update_predator_status(False)
StopStatus_NoStatusUpdate ==
    /\ caller.pc = "stop_status"
    /\ UNCHANGED statusVars
    /\ caller' = [caller EXCEPT
                    !.pc = IF caller.op = "play" THEN "play_lookup" ELSE "endpoint_status"]
    /\ UNCHANGED <<stop_playback_event, playback_thread, threads, now>>
    /\ UNCHANGED engineVars /\ UNCHANGED historyVars /\ UNCHANGED call /\ UNCHANGED serviceVars
    /\ stops_in_row' = IF stops_in_row < MaxStopsCounted
                       THEN stops_in_row + 1 ELSE stops_in_row

\* stop_predator_sound, line 232-233: update_predator_status(False); then back
\* in play_predator_sound (line 188) or in the endpoint (app.py line 427)
StopStatus ==
    /\ caller.pc = "stop_status"
    /\ SetStatus(FALSE, 0)
    /\ caller' = [caller EXCEPT
                    !.pc = IF caller.op = "play" THEN "play_lookup" ELSE "endpoint_status"]
    /\ UNCHANGED <<stop_playback_event, playback_thread, threads, now>>
    /\ UNCHANGED engineVars /\ UNCHANGED historyVars /\ UNCHANGED call /\ UNCHANGED serviceVars
    /\ stops_in_row' = IF stops_in_row < MaxStopsCounted
                       THEN stops_in_row + 1 ELSE stops_in_row

\* app.py line 427-429: the endpoint resets the analyzer status once more
EndpointStatus ==
    /\ caller.pc = "endpoint_status"
    /\ SetStatus(FALSE, 0)
    /\ caller' = [Idle EXCEPT !.op = "stop", !.result = "stopped"]
    /\ UNCHANGED <<stop_playback_event, playback_thread, threads, now>>
    /\ UNCHANGED engineVars /\ UNCHANGED historyVars /\ UNCHANGED call /\ UNCHANGED serviceVars
    /\ UNCHANGED stops_in_row

\* play_predator_sound, line 188 / 215-218: sound_name not in the cache
PlayNotFound ==
    /\ caller.pc = "play_lookup"
    /\ caller.sound \notin SoundCache
    /\ caller' = [Idle EXCEPT !.op = "play", !.sound = caller.sound, !.result = "false"]
    /\ UNCHANGED <<stop_playback_event, playback_thread, threads, now>>
    /\ UNCHANGED statusVars
    /\ UNCHANGED engineVars /\ UNCHANGED historyVars /\ UNCHANGED call /\ UNCHANGED serviceVars
    /\ UNCHANGED stops_in_row

\* play_predator_sound, line 188-210: found; self._stop_playback_event.clear()
PlayClear ==
    /\ caller.pc = "play_lookup"
    /\ caller.sound \in SoundCache
    /\ stop_playback_event' = FALSE
    /\ caller' = [caller EXCEPT !.pc = "play_start"]
    /\ UNCHANGED <<playback_thread, threads, now>>
    /\ UNCHANGED statusVars
    /\ UNCHANGED engineVars /\ UNCHANGED historyVars /\ UNCHANGED call /\ UNCHANGED serviceVars
    /\ stops_in_row' = 0

\* play_predator_sound, line 211-214: Thread(target=playback_loop).start()
PlayStart ==
    /\ caller.pc = "play_start"
    /\ LET t == Cardinality(Born) + 1
       IN /\ t \in ThreadIds
          /\ threads' = [threads EXCEPT ![t] = [pc |-> "begin", sound |-> caller.sound]]
          /\ playback_thread' = t
    /\ caller' = [Idle EXCEPT !.op = "play", !.sound = caller.sound, !.result = "true"]
    /\ UNCHANGED <<stop_playback_event, now>>
    /\ UNCHANGED statusVars
    /\ UNCHANGED engineVars /\ UNCHANGED historyVars /\ UNCHANGED call /\ UNCHANGED serviceVars
    /\ UNCHANGED stops_in_row

\* a whole status duration passes on the clock
LongWait ==
    /\ now < StartTime + MaxLongWaits * ARBITRARY_LONG_DURATION
    /\ now' = now + ARBITRARY_LONG_DURATION
    /\ UNCHANGED playbackVars
    /\ UNCHANGED statusVars
    /\ UNCHANGED engineVars /\ UNCHANGED historyVars /\ UNCHANGED call /\ UNCHANGED serviceVars
    /\ UNCHANGED stops_in_row

----------------------------------------------------------------------------
(* Numbers.  The code computes with floats; the model computes the same      *)
(* expressions exactly, as fractions num/den with den > 0.                   *)

Rat(n, d) == [num |-> n, den |-> d]

RatLess(a, b) == a.num * b.den < b.num * a.den

RatEq(a, b) == a.num * b.den = b.num * a.den

RatAdd(a, b) == Rat(a.num * b.den + b.num * a.den, a.den * b.den)

\* s[:n] in place of s[-n:]: the oldest entries are kept
LastN_KeepsOldest(s, n) == IF Len(s) <= n THEN s ELSE SubSeq(s, 1, n)

\* Python's s[-n:] for n > 0
LastN(s, n) == IF Len(s) <= n THEN s ELSE SubSeq(s, Len(s) - n + 1, Len(s))

----------------------------------------------------------------------------
(* Analyzer: species table (HIGH_RISK_SPECIES) *)

HIGH_RISK_SPECIES ==
    {"Corvus splendens", "Corvus macrorhynchos",
     "Haliaeetus leucogaster", "Acridotheres javanicus"}

\* HIGH_RISK_SPECIES.get(species, {}).get('risk', 0.3), in hundredths
BaseRisk(species) ==
    CASE species = "Corvus splendens" -> 90
      [] species = "Corvus macrorhynchos" -> 80
      [] species = "Haliaeetus leucogaster" -> 95
      [] species = "Acridotheres javanicus" -> 70
      [] OTHER -> 30

\* HIGH_RISK_SPECIES.get(species, {}).get('alarm_patterns', [])
AlarmPatterns(species) ==
    CASE species = "Corvus splendens" -> {"rapid_succession", "pitch_variation"}
      [] species = "Corvus macrorhynchos" -> {"descending_pitch", "repeated_calls"}
      [] species = "Haliaeetus leucogaster" -> {"extended_calls", "circling_behavior"}
      [] species = "Acridotheres javanicus" -> {"chorus_calling", "synchronized_movement"}
      [] OTHER -> {}

----------------------------------------------------------------------------
(* Analyzer: analyze_communication_patterns *)

\* a key absent from the audio_features dictionary
Missing == -1

\* the patterns dictionary as initialised at the top of the function
DefaultPattern ==
    [call_type |-> "unknown",
     emotional_state |-> "neutral",
     behavioral_context |-> "normal",
     urgency_level |-> "low",
     flock_communication |-> FALSE,
     territorial_behavior |-> FALSE,
     alarm_signal |-> FALSE]

\* line 295-303: call type from the mean spectral centroid (Hz)
CallTypeRule(p, centroid) ==
    IF centroid > 3000
    THEN [p EXCEPT !.call_type = "high_frequency_alert", !.urgency_level = "high"]
    ELSE IF centroid > 1500
         THEN [p EXCEPT !.call_type = "territorial_call", !.territorial_behavior = TRUE]
         ELSE [p EXCEPT !.call_type = "contact_call"]

\* line 305-309: flock communication from the tempo
FlockRule(p, tempo) ==
    IF tempo > 150
    THEN [p EXCEPT !.flock_communication = TRUE,
                   !.behavioral_context = "group_coordination"]
    ELSE p

\* line 311-316: alarm from the zero-crossing variance (zcr in thousandths,
\* so that 0.01 is 10)
AlarmRule(p, zcr) ==
    IF zcr > 10
    THEN [p EXCEPT !.alarm_signal = TRUE,
                   !.emotional_state = "alarmed",
                   !.urgency_level = "high"]
    ELSE p

\* line 323-325: rapid_succession and tempo > 180
RapidSuccessionRule(p, alarm_patterns, tempo) ==
    IF "rapid_succession" \in alarm_patterns /\ tempo > 180
    THEN [p EXCEPT !.behavioral_context = "immediate_threat_response",
                   !.urgency_level = "critical"]
    ELSE p

\* line 327-329: pitch_variation and zcr_variance > 0.015 (15 thousandths)
PitchVariationRule(p, alarm_patterns, zcr) ==
    IF "pitch_variation" \in alarm_patterns /\ zcr > 15
    THEN [p EXCEPT !.behavioral_context = "predator_warning",
                   !.urgency_level = "high"]
    ELSE p

\* analyze_communication_patterns(audio_features, species_info).
\* f.present = FALSE is audio_features None; a Missing field is an absent key:
\* audio_features['mfcc'], ['spectral_centroid'] and ['zero_crossing_rate']
\* raise on an absent key and the except clause returns patterns as modified so
\* far, audio_features.get('tempo', 0) does not raise.
analyze_communication_patterns(f, scientific) ==
    IF ~f.present
    THEN DefaultPattern
    ELSE IF (~f.mfcc) \/ f.centroid = Missing
    THEN DefaultPattern
    ELSE LET tempo == IF f.tempo = Missing THEN 0 ELSE f.tempo
             p1 == CallTypeRule(DefaultPattern, f.centroid)
             p2 == FlockRule(p1, tempo)
         IN IF f.zcr = Missing
            THEN p2
            ELSE LET p3 == AlarmRule(p2, f.zcr)
                     ap == AlarmPatterns(scientific)
                     p4 == RapidSuccessionRule(p3, ap, tempo)
                 IN PitchVariationRule(p4, ap, f.zcr)

----------------------------------------------------------------------------
(* Analyzer: predict_behavioral_intent *)

\* the keys of intent_scores in insertion order
IntentOrder ==
    <<"landing_approach", "territory_defense", "flock_gathering",
      "predator_avoidance", "normal_flight">>

Intents == {IntentOrder[i] : i \in 1..Len(IntentOrder)}

\* sum(1 for p in recent_patterns if p.get(field))
RECURSIVE CountAlarm(_)
CountAlarm(h) ==
    IF h = <<>> THEN 0
    ELSE (IF Head(h).alarm_signal THEN 1 ELSE 0) + CountAlarm(Tail(h))

RECURSIVE CountTerritorial(_)
CountTerritorial(h) ==
    IF h = <<>> THEN 0
    ELSE (IF Head(h).territorial_behavior THEN 1 ELSE 0) + CountTerritorial(Tail(h))

\* the contributions with a rule that weighs landing_approach on flock calls
RawIntentScores_LandingRule(p, historical_data) ==
    LET recent == LastN(historical_data, 5)
        histAlarm == Len(historical_data) > 0 /\ CountAlarm(recent) > 2
        histTerr == Len(historical_data) > 0 /\ CountTerritorial(recent) > 1
    IN [k \in Intents |->
          CASE k = "predator_avoidance" ->
                   (IF p.alarm_signal THEN 4 ELSE 0) + (IF histAlarm THEN 3 ELSE 0)
            [] k = "territory_defense" ->
                   (IF p.territorial_behavior THEN 3 ELSE 0) + (IF histTerr THEN 2 ELSE 0)
            [] k = "flock_gathering" -> (IF p.flock_communication THEN 4 ELSE 0)
            [] k = "landing_approach" -> (IF p.flock_communication THEN 5 ELSE 0)
            [] OTHER -> 0]

\* line 340-369: the additive contributions, in tenths
RawIntentScores(p, historical_data) ==
    LET recent == LastN(historical_data, 5)
        histAlarm == Len(historical_data) > 0 /\ CountAlarm(recent) > 2
        histTerr == Len(historical_data) > 0 /\ CountTerritorial(recent) > 1
    IN [k \in Intents |->
          CASE k = "predator_avoidance" ->
                   (IF p.alarm_signal THEN 4 ELSE 0) + (IF histAlarm THEN 3 ELSE 0)
            [] k = "territory_defense" ->
                   (IF p.territorial_behavior THEN 3 ELSE 0) + (IF histTerr THEN 2 ELSE 0)
            [] k = "flock_gathering" -> (IF p.flock_communication THEN 4 ELSE 0)
            [] OTHER -> 0]

RECURSIVE SumOver(_, _)
SumOver(scores, keys) ==
    IF keys = <<>> THEN 0 ELSE scores[Head(keys)] + SumOver(scores, Tail(keys))

\* the scores left as accumulated: no division by the total
NormalizeScores_Unnormalized(raw) ==
    LET total_score == SumOver(raw, IntentOrder)
    IN IF total_score > 0
       THEN [k \in Intents |-> Rat(raw[k], 10)]
       ELSE [k \in Intents |-> IF k = "normal_flight" THEN Rat(1, 1) ELSE Rat(0, 10)]

\* line 371-377: normalise, or normal_flight = 1.0 when nothing contributed
NormalizeScores(raw) ==
    LET total_score == SumOver(raw, IntentOrder)
    IN IF total_score > 0
       THEN [k \in Intents |-> Rat(raw[k], total_score)]
       ELSE [k \in Intents |-> IF k = "normal_flight" THEN Rat(1, 1) ELSE Rat(0, 10)]

\* max(intent_scores, key=intent_scores.get): the dictionary is walked in
\* insertion order and a later key replaces the best only when strictly greater
RECURSIVE MaxKeyFrom(_, _, _)
MaxKeyFrom(scores, keys, best) ==
    IF keys = <<>> THEN best
    ELSE MaxKeyFrom(scores, Tail(keys),
                    IF RatLess(scores[best], scores[Head(keys)])
                    THEN Head(keys) ELSE best)

\* a later key replaces the best also when equal: the last maximum wins
RECURSIVE MaxKeyFromLast(_, _, _)
MaxKeyFromLast(scores, keys, best) ==
    IF keys = <<>> THEN best
    ELSE MaxKeyFromLast(scores, Tail(keys),
                        IF RatLess(scores[Head(keys)], scores[best])
                        THEN best ELSE Head(keys))

MaxKey_LastWins(scores) == MaxKeyFromLast(scores, Tail(IntentOrder), Head(IntentOrder))

MaxKey(scores) == MaxKeyFrom(scores, Tail(IntentOrder), Head(IntentOrder))

\* predict_behavioral_intent(communication_patterns, historical_data)
predict_behavioral_intent(p, historical_data) ==
    LET intent_scores == NormalizeScores(RawIntentScores(p, historical_data))
        primary_intent == MaxKey(intent_scores)
    IN [primary_intent |-> primary_intent,
        confidence |-> intent_scores[primary_intent],
        all_scores |-> intent_scores]

----------------------------------------------------------------------------
(* Analyzer: calculate_enhanced_risk_score and the alert level *)

\* intent_multipliers.get(primary_intent, 1.0), in tenths
IntentMultiplier(primary_intent) ==
    CASE primary_intent = "landing_approach" -> 15
      [] primary_intent = "territory_defense" -> 13
      [] primary_intent = "flock_gathering" -> 12
      [] primary_intent = "predator_avoidance" -> 8
      [] OTHER -> 10

\* the score returned without the cap
CapAtOne_Missing(r) == r

\* min(risk_score, 1.0)
CapAtOne(r) == IF RatLess(Rat(1, 1), r) THEN Rat(1, 1) ELSE r

\* line 421-425: 1 + (multiplier - 1) * intent_confidence
IntentFactor(behavioral_intent) ==
    LET c == behavioral_intent.confidence
        m == IntentMultiplier(behavioral_intent.primary_intent)
    IN Rat(10 * c.den + (m - 10) * c.num, 10 * c.den)

\* line 397-427 with base_risk and confidence in hundredths: the score before
\* the intent factor is in 1/10000
RiskScoreFrom(base_risk, confidence, p, behavioral_intent) ==
    LET pre == base_risk * confidence
               + (IF p.alarm_signal THEN 2000 ELSE 0)
               + (IF p.urgency_level = "critical" THEN 3000
                  ELSE IF p.urgency_level = "high" THEN 1500 ELSE 0)
               + (IF p.flock_communication THEN 1000 ELSE 0)
        factor == IntentFactor(behavioral_intent)
    IN CapAtOne(Rat(pre * factor.num, 10000 * factor.den))

\* calculate_enhanced_risk_score(species, confidence, patterns, intent)
calculate_enhanced_risk_score(species, confidence, p, behavioral_intent) ==
    RiskScoreFrom(BaseRisk(species), confidence, p, behavioral_intent)

\* the thresholds taken as inclusive (>=)
AlertLevelFor_Inclusive(risk_score) ==
    IF ~RatLess(risk_score, Rat(8, 10))
    THEN [alert_level |-> "CRITICAL", recommended_action |-> "IMMEDIATE_RUNWAY_CLOSURE"]
    ELSE IF ~RatLess(risk_score, Rat(6, 10))
    THEN [alert_level |-> "HIGH", recommended_action |-> "DELAY_TAKEOFF"]
    ELSE IF ~RatLess(risk_score, Rat(4, 10))
    THEN [alert_level |-> "MEDIUM", recommended_action |-> "INCREASE_MONITORING"]
    ELSE [alert_level |-> "LOW", recommended_action |-> "CONTINUE_NORMAL"]

\* analyze_audio_with_ai, line 498-510: alert level and action from the score
AlertLevelFor(risk_score) ==
    IF RatLess(Rat(8, 10), risk_score)
    THEN [alert_level |-> "CRITICAL", recommended_action |-> "IMMEDIATE_RUNWAY_CLOSURE"]
    ELSE IF RatLess(Rat(6, 10), risk_score)
    THEN [alert_level |-> "HIGH", recommended_action |-> "DELAY_TAKEOFF"]
    ELSE IF RatLess(Rat(4, 10), risk_score)
    THEN [alert_level |-> "MEDIUM", recommended_action |-> "INCREASE_MONITORING"]
    ELSE [alert_level |-> "LOW", recommended_action |-> "CONTINUE_NORMAL"]

----------------------------------------------------------------------------
(* Engine: threat level, templates, automated execution *)

\* the flock flag left out of the HIGH rule
assess_threat_level_NoFlock(bird_data) ==
    IF RatLess(Rat(8, 10), bird_data.risk_score) \/ bird_data.alert_level = "CRITICAL"
    THEN "CRITICAL"
    ELSE IF \/ RatLess(Rat(6, 10), bird_data.risk_score)
            \/ bird_data.alert_level = "HIGH"
    THEN "HIGH"
    ELSE IF RatLess(Rat(4, 10), bird_data.risk_score) \/ bird_data.alert_level = "MEDIUM"
    THEN "MEDIUM"
    ELSE "LOW"

\* AIDecisionEngine._assess_threat_level(bird_data)
assess_threat_level(bird_data) ==
    IF RatLess(Rat(8, 10), bird_data.risk_score) \/ bird_data.alert_level = "CRITICAL"
    THEN "CRITICAL"
    ELSE IF \/ RatLess(Rat(6, 10), bird_data.risk_score)
            \/ bird_data.alert_level = "HIGH"
            \/ bird_data.flock_communication
    THEN "HIGH"
    ELSE IF RatLess(Rat(4, 10), bird_data.risk_score) \/ bird_data.alert_level = "MEDIUM"
    THEN "MEDIUM"
    ELSE "LOW"

\* StrategicAction(action_type, priority, success_probability in hundredths, automated)
StrategicAction(action_type, priority, success_probability, automated) ==
    [action_type |-> action_type, priority |-> priority,
     success_probability |-> success_probability, automated |-> automated]

\* _generate_low_threat_strategies
generate_low_threat_strategies ==
    <<StrategicAction("MONITOR", 1, 90, TRUE),
      StrategicAction("SOUND_DETERRENT", 2, 70, TRUE)>>

\* the medium template with the delay appended whatever the flock flag
generate_medium_threat_strategies_DelayAlways(bird_data) ==
    <<StrategicAction("SOUND_DETERRENT", 1, 80, TRUE),
      StrategicAction("MONITOR", 2, 85, TRUE),
      StrategicAction("DELAY", 3, 95, FALSE)>>

\* _generate_medium_threat_strategies
generate_medium_threat_strategies(bird_data) ==
    <<StrategicAction("SOUND_DETERRENT", 1, 80, TRUE),
      StrategicAction("MONITOR", 2, 85, TRUE)>>
    \o (IF bird_data.flock_communication
        THEN <<StrategicAction("DELAY", 3, 95, FALSE)>>
        ELSE <<>>)

\* _generate_high_threat_strategies
generate_high_threat_strategies ==
    <<StrategicAction("SOUND_DETERRENT", 1, 75, TRUE),
      StrategicAction("DELAY", 2, 90, FALSE),
      StrategicAction("REDIRECT", 3, 80, FALSE)>>

\* the critical template with the sound deterrent left to the operator
generate_critical_threat_strategies_ManualSound ==
    <<StrategicAction("EMERGENCY_STOP", 1, 99, TRUE),
      StrategicAction("SOUND_DETERRENT", 2, 70, FALSE),
      StrategicAction("EVACUATE", 3, 95, FALSE)>>

\* _generate_critical_threat_strategies
generate_critical_threat_strategies ==
    <<StrategicAction("EMERGENCY_STOP", 1, 99, TRUE),
      StrategicAction("SOUND_DETERRENT", 2, 70, TRUE),
      StrategicAction("EVACUATE", 3, 95, FALSE)>>

\* self.strategy_templates[threat_level](bird_data, situation_analysis)
strategy_templates(threat_level, bird_data) ==
    CASE threat_level = "LOW" -> generate_low_threat_strategies
      [] threat_level = "MEDIUM" -> generate_medium_threat_strategies(bird_data)
      [] threat_level = "HIGH" -> generate_high_threat_strategies
      [] threat_level = "CRITICAL" -> generate_critical_threat_strategies

\* generate_next_action_recommendation(bird_data)
generate_next_action_recommendation(bird_data) ==
    LET threat_level == assess_threat_level(bird_data)
    IN [threat_level |-> threat_level,
        recommended_actions |-> strategy_templates(threat_level, bird_data)]

\* the sound deterrent handed to _execute_sound_deterrent instead of skipped
AutomatedHandler_Dispatching(action) ==
    IF ~action.automated THEN "not_automated"
    ELSE IF action.action_type = "SOUND_DETERRENT" THEN "_execute_sound_deterrent"
    ELSE IF action.action_type = "MONITOR" THEN "_execute_enhanced_monitoring"
    ELSE IF action.action_type = "EMERGENCY_STOP" THEN "_execute_emergency_stop"
    ELSE "log_only"

\* execute_automated_response, line 613-622: what the loop does with one action
AutomatedHandler(action) ==
    IF ~action.automated THEN "not_automated"
    ELSE IF action.action_type = "SOUND_DETERRENT" THEN "skipped"
    ELSE IF action.action_type = "MONITOR" THEN "_execute_enhanced_monitoring"
    ELSE IF action.action_type = "EMERGENCY_STOP" THEN "_execute_emergency_stop"
    ELSE "log_only"

\* execute_automated_response, line 624-625: the actions that reach the log call
RECURSIVE ExecutedActions(_)
ExecutedActions(actions) ==
    IF actions = <<>> THEN <<>>
    ELSE (IF AutomatedHandler(Head(actions)) \in {"not_automated", "skipped"}
          THEN <<>> ELSE <<Head(actions)>>)
         \o ExecutedActions(Tail(actions))

\* an action of the recommendation is handed to _execute_sound_deterrent
SoundDeterrentDispatched(actions) ==
    \E i \in 1..Len(actions) : AutomatedHandler(actions[i]) = "_execute_sound_deterrent"

\* if len(self.response_history) > 1000
RESPONSE_HISTORY_LIMIT == 1000

\* line 664-671: the log_entry dictionary
log_entry(action, bird_data, timestamp) ==
    [timestamp |-> timestamp,
     action |-> action.action_type,
     species |-> bird_data.species,
     threat_level |-> bird_data.alert_level]

\* _log_action_execution(action, bird_data): the history after the call;
\* timestamp is datetime.now() at the call
log_action_execution(history, action, bird_data, timestamp) ==
    LastN(Append(history, log_entry(action, bird_data, timestamp)),
          RESPONSE_HISTORY_LIMIT)

RECURSIVE LogAll(_, _, _, _)
LogAll(history, actions, bird_data, timestamp) ==
    IF actions = <<>> THEN history
    ELSE LogAll(log_action_execution(history, Head(actions), bird_data, timestamp),
                Tail(actions), bird_data, timestamp)

\* the alerts handed to the strategic service: species, score, the alert level
\* the analyzer derives from the score, and the flock flag
AlertFrom(species, risk_score, flock) ==
    [species |-> species,
     risk_score |-> risk_score,
     alert_level |-> AlertLevelFor(risk_score).alert_level,
     flock_communication |-> flock]

AlertInputs ==
    {AlertFrom("Corvus splendens", Rat(n, 100), flock) :
        n \in {30, 50, 70, 90}, flock \in BOOLEAN}

\* NextActionPanel.update_recommendation(bird_data), reached from
\* process_bird_alert: the recommendation is stored, then
\* execute_automated_response runs.  _execute_sound_deterrent (line 627-650)
\* calls play_predator_sound with a sound of the library.
UpdateRecommendationEffect(bird_data) ==
    /\ LET rec == generate_next_action_recommendation(bird_data)
       IN /\ current_recommendation' = rec
          /\ response_history' =
                LogAll(response_history, ExecutedActions(rec.recommended_actions),
                       bird_data, now)
          /\ IF SoundDeterrentDispatched(rec.recommended_actions)
             THEN /\ caller.pc = "idle"
                  /\ Cardinality(Born) < MaxThreads
                  /\ \E s \in SoundCache :
                        caller' = [pc |-> "stop_set", op |-> "play",
                                   sound |-> s, result |-> "none"]
             ELSE caller' = caller
    /\ processed' = processed + 1

\* update_recommendation run for one more detection
UpdateRecommendation(bird_data) ==
    /\ processed < MaxDetections
    /\ UpdateRecommendationEffect(bird_data)
    /\ UNCHANGED <<stop_playback_event, playback_thread, threads, now>>
    /\ UNCHANGED statusVars
    /\ UNCHANGED historyVars /\ UNCHANGED call /\ UNCHANGED serviceVars
    /\ UNCHANGED stops_in_row

----------------------------------------------------------------------------
(* Executor threads.  process_bird_alert hands update_recommendation to the  *)
(* default thread pool (strategic_service.py line 68-73); the monitoring     *)
(* thread's handler and the process-alert endpoint each do so, so two calls  *)
(* can be inside _log_action_execution at once.                              *)

Workers == {1, 2}

IdleLogger == [pc |-> "idle", tmp |-> <<>>]

----------------------------------------------------------------------------
InitPlayback ==
    /\ stop_playback_event = FALSE
    /\ playback_thread = NoThread
    /\ threads = [t \in ThreadIds |-> [pc |-> "unborn", sound |-> "none"]]
    /\ caller = Idle
    /\ is_predator_playing = FALSE
    /\ predator_play_start = NoTime
    /\ predator_play_duration = 0
    /\ now = StartTime

\* current_recommendation = None
NoRecommendation == [threat_level |-> "NONE", recommended_actions |-> <<>>]

\* a service request not in flight
IdleTask == [pc |-> "idle"]

InitEngine ==
    /\ current_recommendation = NoRecommendation
    /\ response_history = <<>>
    /\ processed = 0

InitHistory ==
    /\ communication_history = <<>>
    /\ app_communication_history = <<>>
    /\ appended = 0
    /\ store = "none"

\* no request made yet
NoReply == [op |-> "none"]

\* the service after startup_event: initialize() has succeeded, no request yet
InitService ==
    /\ loggers = [w \in Workers |-> IdleLogger]
    /\ executed = 0
    /\ initialized = TRUE
    /\ reply = NoReply
    /\ stops_in_row = 0
    /\ db = [detections |-> 0, alerts |-> 0]
    /\ broadcasts = 0
    /\ service_recommendation = NoRecommendation
    /\ tasks = [w \in Workers |-> IdleTask]

Init ==
    /\ InitPlayback
    /\ InitEngine
    /\ InitHistory
    /\ InitService
    /\ call = [fn |-> "none"]

PlaybackNext ==
    \/ \E s \in RequestedSounds : CallPlay(s)
    \/ CallStop
    \/ StopSet
    \/ StopJoin
    \/ StopClear
    \/ StopStatus
    \/ EndpointStatus
    \/ PlayNotFound
    \/ PlayClear
    \/ PlayStart
    \/ \E t \in ThreadIds : ThreadBegin(t)
    \/ \E t \in ThreadIds : ThreadCheck(t)
    \/ \E t \in ThreadIds : ThreadWake(t)
    \/ \E t \in ThreadIds : ThreadFinally(t)
    \/ LongWait

Next == PlaybackNext

Spec == Init /\ [][Next]_vars

\* a started playback thread is scheduled, and time.sleep(duration) returns:
\* every step of playback_loop that can be taken is taken in the end
ThreadsRun ==
    \A t \in ThreadIds :
        /\ WF_vars(ThreadBegin(t))
        /\ WF_vars(ThreadCheck(t))
        /\ WF_vars(ThreadWake(t))
        /\ WF_vars(ThreadFinally(t))

SpecLive == Spec /\ ThreadsRun

\* the player without the clock, and the engine processing detections
EngineNext ==
    \/ \E s \in RequestedSounds : CallPlay(s)
    \/ CallStop
    \/ StopSet
    \/ StopJoin
    \/ StopClear
    \/ StopStatus
    \/ EndpointStatus
    \/ PlayNotFound
    \/ PlayClear
    \/ PlayStart
    \/ \E t \in ThreadIds : ThreadBegin(t)
    \/ \E t \in ThreadIds : ThreadCheck(t)
    \/ \E t \in ThreadIds : ThreadWake(t)
    \/ \E t \in ThreadIds : ThreadFinally(t)
    \/ \E a \in AlertInputs : UpdateRecommendation(a)

SpecEngine == Init /\ [][EngineNext]_vars

----------------------------------------------------------------------------
(* Concurrent logging.  _log_action_execution (line 662-677) takes no lock:  *)
(* append, the length test and the slice assignment are separate steps of    *)
(* the executor thread that run interleaved with the other thread's.  The    *)
(* detections are CRITICAL ones, whose automated EMERGENCY_STOP is executed  *)
(* and logged; the timestamp of an entry is its ordinal among the executed   *)
(* actions.                                                                  *)

CriticalAlerts == {a \in AlertInputs : assess_threat_level(a) = "CRITICAL"}

\* update_recommendation up to line 673: the recommendation is stored, the
\* automated action executed and self.response_history.append(log_entry) done
LogAppend(w) ==
    /\ loggers[w].pc = "idle"
    /\ executed < RESPONSE_HISTORY_LIMIT + MaxOverflow
    /\ \E bird_data \in CriticalAlerts :
          LET rec == generate_next_action_recommendation(bird_data)
              action == ExecutedActions(rec.recommended_actions)[1]
          IN /\ current_recommendation' = rec
             /\ response_history' =
                   Append(response_history, log_entry(action, bird_data, executed + 1))
    /\ executed' = executed + 1
    /\ processed' = processed + 1
    /\ loggers' = [loggers EXCEPT ![w].pc = "check"]
    /\ UNCHANGED <<playbackVars, statusVars, now, historyVars, call,
                   initialized, reply, stops_in_row, db, broadcasts,
                   service_recommendation, tasks>>

\* line 676: if len(self.response_history) > 1000
LogCheck(w) ==
    /\ loggers[w].pc = "check"
    /\ loggers' = [loggers EXCEPT
                     ![w].pc = IF Len(response_history) > RESPONSE_HISTORY_LIMIT
                               THEN "slice" ELSE "idle"]
    /\ UNCHANGED <<playbackVars, statusVars, now, engineVars, historyVars, call,
                   executed, initialized, reply, stops_in_row, db, broadcasts,
                   service_recommendation, tasks>>

\* line 677, right-hand side: self.response_history[-1000:] builds a new list
LogSlice(w) ==
    /\ loggers[w].pc = "slice"
    /\ loggers' = [loggers EXCEPT
                     ![w] = [pc |-> "store",
                             tmp |-> LastN(response_history, RESPONSE_HISTORY_LIMIT)]]
    /\ UNCHANGED <<playbackVars, statusVars, now, engineVars, historyVars, call,
                   executed, initialized, reply, stops_in_row, db, broadcasts,
                   service_recommendation, tasks>>

\* line 677, assignment: self.response_history = <the new list>
LogStore(w) ==
    /\ loggers[w].pc = "store"
    /\ response_history' = loggers[w].tmp
    /\ loggers' = [loggers EXCEPT ![w] = IdleLogger]
    /\ UNCHANGED <<playbackVars, statusVars, now, current_recommendation, processed,
                   historyVars, call,
                   executed, initialized, reply, stops_in_row, db, broadcasts,
                   service_recommendation, tasks>>

LogNext ==
    \/ \E w \in Workers : LogAppend(w)
    \/ \E w \in Workers : LogCheck(w)
    \/ \E w \in Workers : LogSlice(w)
    \/ \E w \in Workers : LogStore(w)

\* the engine after RESPONSE_HISTORY_LIMIT - 1 CRITICAL detections processed
\* one after the other: one entry short of the first eviction
InitLog ==
    /\ InitPlayback
    /\ InitHistory
    /\ LET bird_data == CHOOSE a \in CriticalAlerts : ~a.flock_communication
           rec == generate_next_action_recommendation(bird_data)
       IN /\ current_recommendation = rec
          /\ response_history =
                [i \in 1..(RESPONSE_HISTORY_LIMIT - 1) |->
                    log_entry(ExecutedActions(rec.recommended_actions)[1], bird_data, i)]
    /\ processed = RESPONSE_HISTORY_LIMIT - 1
    /\ executed = RESPONSE_HISTORY_LIMIT - 1
    /\ loggers = [w \in Workers |-> IdleLogger]
    /\ initialized = TRUE
    /\ reply = NoReply
    /\ stops_in_row = 0
    /\ db = [detections |-> 0, alerts |-> 0]
    /\ broadcasts = 0
    /\ service_recommendation = NoRecommendation
    /\ tasks = [w \in Workers |-> IdleTask]
    /\ call = [fn |-> "none"]

SpecLog == InitLog /\ [][LogNext]_vars

----------------------------------------------------------------------------
(* Appends to the analyzer's and the app's bounded histories *)

\* if len(self.communication_history) > 100
ANALYZER_HISTORY_LIMIT == 100

\* if len(communication_history) > 1000
APP_HISTORY_LIMIT == 1000

\* analyze_audio_with_ai, line 534-537: append, then keep the last 100
AnalyzerHistoryAppend(history, entry) ==
    LastN(Append(history, entry), ANALYZER_HISTORY_LIMIT)

\* enhanced_websocket_alert_handler, line 268-279: append, then keep the last 1000
AppHistoryAppend(history, entry) ==
    LastN(Append(history, entry), APP_HISTORY_LIMIT)

----------------------------------------------------------------------------
(* The strategic service (services/strategic_service.py).  A request is one  *)
(* step; reply records the request, whether the service was initialized when *)
(* it was made, the recommendation that was current, and the result.         *)

\* what a service method returns: None, a bool, or a dictionary whose
\* "status" (or top-level key) says what it is
NoneResult == [kind |-> "None", value |-> FALSE, status |-> ""]

BoolResult(b) == [kind |-> "bool", value |-> b, status |-> ""]

DictResult(status) == [kind |-> "dict", value |-> FALSE, status |-> status]

\* the last request did not raise into its caller
Returned(op, result) ==
    [op |-> op, initialized |-> initialized, raised |-> FALSE,
     target |-> 0, action_id |-> 0,
     current |-> processed, recommendation |-> current_recommendation,
     result |-> result]

\* the index bound of line 772 taken as 0 <= action_id <= len(...)
manual_action_allowed_BoundOffByOne(recommendation, action_id) ==
    /\ 0 <= action_id
    /\ action_id <= Len(recommendation.recommended_actions)
    /\ action_id < Len(recommendation.recommended_actions)
          => ~recommendation.recommended_actions[action_id + 1].automated

\* NextActionPanel.execute_manual_action, line 772-778: the index is in range
\* and the action at it (0-based) is not automated
manual_action_allowed(recommendation, action_id) ==
    /\ 0 <= action_id
    /\ action_id < Len(recommendation.recommended_actions)
    /\ ~recommendation.recommended_actions[action_id + 1].automated

\* NextActionPanel.execute_manual_action(action_id) on the panel's state;
\* processed = 0 is current_recommendation None
panel_execute_manual_action(action_id) ==
    IF processed = 0 THEN FALSE
    ELSE manual_action_allowed(current_recommendation, action_id)

\* StrategicResponseService.initialize(), _init_strategic_system succeeded
InitializeSucceeds ==
    /\ ~initialized
    /\ initialized' = TRUE
    /\ reply' = [Returned("initialize", NoneResult) EXCEPT !.initialized = TRUE]
    /\ UNCHANGED <<playbackVars, statusVars, now, engineVars, historyVars, call,
                   loggers, executed, stops_in_row, db, broadcasts,
                   service_recommendation, tasks>>

\* StrategicResponseService.initialize(), _init_strategic_system raised: the
\* exception is logged and initialized stays False
InitializeFails ==
    /\ ~initialized
    /\ initialized' = FALSE
    /\ reply' = Returned("initialize", NoneResult)
    /\ UNCHANGED <<playbackVars, statusVars, now, engineVars, historyVars, call,
                   loggers, executed, stops_in_row, db, broadcasts,
                   service_recommendation, tasks>>

\* StrategicResponseService.process_bird_alert(alert_data)
ProcessBirdAlert(bird_data) ==
    /\ IF ~initialized
       THEN /\ reply' = Returned("process_bird_alert", NoneResult)
            /\ UNCHANGED <<engineVars, caller, service_recommendation>>
       ELSE /\ processed < MaxDetections
            /\ UpdateRecommendationEffect(bird_data)
            /\ service_recommendation' = current_recommendation'
            /\ reply' = [Returned("process_bird_alert",
                                  DictResult("strategic_recommendation"))
                           EXCEPT !.current = processed + 1,
                                  !.recommendation =
                                      generate_next_action_recommendation(bird_data)]
    /\ UNCHANGED <<stop_playback_event, playback_thread, threads, now>>
    /\ UNCHANGED <<statusVars, historyVars, call,
                   loggers, executed, initialized, stops_in_row, db, broadcasts,
                   tasks>>

\* StrategicResponseService.get_current_recommendation()
GetCurrentRecommendation ==
    /\ reply' = Returned("get_current_recommendation",
                         IF ~initialized \/ service_recommendation = NoRecommendation
                         THEN NoneResult
                         ELSE DictResult("strategic_recommendation"))
    /\ UNCHANGED <<playbackVars, statusVars, now, engineVars, historyVars, call,
                   loggers, executed, initialized, stops_in_row, db, broadcasts,
                   service_recommendation, tasks>>

\* StrategicResponseService.execute_manual_action(action_id); target is the
\* recommendation the requester looked at (the request carries only action_id)
ExecuteManualAction(target, action_id) ==
    /\ reply' = [Returned("execute_manual_action",
                          BoolResult(IF ~initialized THEN FALSE
                                     ELSE panel_execute_manual_action(action_id)))
                   EXCEPT !.target = target, !.action_id = action_id]
    /\ UNCHANGED <<playbackVars, statusVars, now, engineVars, historyVars, call,
                   loggers, executed, initialized, stops_in_row, db, broadcasts,
                   service_recommendation, tasks>>

\* StrategicResponseService.get_system_status(): once initialized, line 161
\* calls predator_sounds.get_current_sound_type(), which PredatorSoundLibrary
\* does not define; the AttributeError is caught at line 170
GetSystemStatus ==
    /\ reply' = Returned("get_system_status",
                         IF ~initialized THEN DictResult("not_initialized")
                         ELSE DictResult("error"))
    /\ UNCHANGED <<playbackVars, statusVars, now, engineVars, historyVars, call,
                   loggers, executed, initialized, stops_in_row, db, broadcasts,
                   service_recommendation, tasks>>

\* StrategicResponseService.get_predator_sounds_status(): line 190 raises the
\* same AttributeError, caught at line 192
GetPredatorSoundsStatus ==
    /\ reply' = Returned("get_predator_sounds_status",
                         IF ~initialized THEN DictResult("not_initialized")
                         ELSE DictResult("error"))
    /\ UNCHANGED <<playbackVars, statusVars, now, engineVars, historyVars, call,
                   loggers, executed, initialized, stops_in_row, db, broadcasts,
                   service_recommendation, tasks>>

\* enhanced_websocket_alert_handler(alert), app.py line 149-319, from the
\* species lookup to the broadcast.  db_manager.add_detection and add_alert
\* (db.py line 855-871) commit without a try: a failed write raises into the
\* handler, whose only enclosing handler is the except of line 318, after the
\* broadcast.  The strategic call has a try/except of its own (line 222-233).
HandleAlert(alert, detection_ok, alert_ok) ==
    /\ processed < MaxDetections
    /\ db.detections < MaxDetections
    /\ IF ~detection_ok
       THEN /\ UNCHANGED <<engineVars, caller, db, broadcasts,
                           app_communication_history, appended,
                           service_recommendation>>
            /\ reply' = [op |-> "enhanced_websocket_alert_handler", alert |-> alert,
                         initialized |-> initialized, raised |-> FALSE,
                         detection_saved |-> FALSE, alert_saved |-> FALSE]
       ELSE /\ IF initialized
               THEN /\ UpdateRecommendationEffect(alert)
                    /\ service_recommendation' = current_recommendation'
               ELSE UNCHANGED <<engineVars, caller, service_recommendation>>
            /\ reply' = [op |-> "enhanced_websocket_alert_handler", alert |-> alert,
                         initialized |-> initialized, raised |-> FALSE,
                         detection_saved |-> TRUE, alert_saved |-> alert_ok]
            /\ IF ~alert_ok
               THEN /\ db' = [db EXCEPT !.detections = @ + 1]
                    /\ UNCHANGED <<broadcasts, app_communication_history, appended>>
               ELSE /\ db' = [detections |-> db.detections + 1,
                              alerts |-> db.alerts + 1]
                    /\ app_communication_history' =
                          AppHistoryAppend(app_communication_history, appended + 1)
                    /\ appended' = appended + 1
                    /\ broadcasts' = broadcasts + 1
    /\ UNCHANGED <<stop_playback_event, playback_thread, threads, now>>
    /\ UNCHANGED <<statusVars, communication_history, store, call,
                   loggers, executed, initialized, stops_in_row, tasks>>

\* recommendations a manual request may be meant for, numbered in the order
\* they were generated: the current one, an overwritten one, or one that never
\* existed
Targets == 1..(MaxDetections + 1)

\* action indices on both sides of the bounds of the longest action list
ActionIds == -1..3

\* the service as constructed (line 19-24), before initialize()
InitServiceRun ==
    /\ InitPlayback
    /\ InitEngine
    /\ InitHistory
    /\ loggers = [w \in Workers |-> IdleLogger]
    /\ executed = 0
    /\ initialized = FALSE
    /\ reply = NoReply
    /\ stops_in_row = 0
    /\ db = [detections |-> 0, alerts |-> 0]
    /\ broadcasts = 0
    /\ service_recommendation = NoRecommendation
    /\ tasks = [w \in Workers |-> IdleTask]
    /\ call = [fn |-> "none"]

ServiceNext ==
    \/ InitializeSucceeds
    \/ InitializeFails
    \/ \E a \in AlertInputs : ProcessBirdAlert(a)
    \/ GetCurrentRecommendation
    \/ \E target \in Targets, action_id \in ActionIds :
          ExecuteManualAction(target, action_id)
    \/ GetSystemStatus
    \/ GetPredatorSoundsStatus
    \/ \E a \in AlertInputs, detection_ok \in BOOLEAN, alert_ok \in BOOLEAN :
          HandleAlert(a, detection_ok, alert_ok)

SpecService == InitServiceRun /\ [][ServiceNext]_vars

----------------------------------------------------------------------------
(* Requests in flight.  process_bird_alert is awaited on the monitoring      *)
(* thread's own event loop (app.py line 222-228) and on the server's loop    *)
(* (app.py line 912); execute_manual_action on the server's loop (line 408). *)
(* Each hands the panel method to the default thread pool, so the statements *)
(* of two requests interleave.  A step below is one read or one write of     *)
(* current_recommendation.                                                   *)

\* process_bird_alert, line 45-54: initialized, bird_data converted, the call
\* of update_recommendation submitted to the pool
AlertBegin(w, bird_data) ==
    /\ tasks[w].pc = "idle"
    /\ initialized
    /\ processed < MaxDetections
    /\ processed' = processed + 1
    /\ tasks' = [tasks EXCEPT ![w] = [pc |-> "panel_store", op |-> "process_bird_alert",
                                      bird_data |-> bird_data,
                                      tmp |-> NoRecommendation]]
    /\ UNCHANGED <<playbackVars, statusVars, now, current_recommendation,
                   response_history, historyVars, call,
                   loggers, executed, initialized, reply, stops_in_row, db, broadcasts,
                   service_recommendation>>

\* update_recommendation, line 757: self.current_recommendation = generate...
AlertPanelStore(w) ==
    /\ tasks[w].pc = "panel_store"
    /\ current_recommendation' = generate_next_action_recommendation(tasks[w].bird_data)
    /\ tasks' = [tasks EXCEPT ![w].pc = "execute"]
    /\ UNCHANGED <<playbackVars, statusVars, now, response_history, processed,
                   historyVars, call,
                   loggers, executed, initialized, reply, stops_in_row, db, broadcasts,
                   service_recommendation>>

\* update_recommendation, line 760: execute_automated_response(bird_data,
\* self.current_recommendation); the field is read when the call is made
AlertExecute(w) ==
    /\ tasks[w].pc = "execute"
    /\ response_history' =
          LogAll(response_history,
                 ExecutedActions(current_recommendation.recommended_actions),
                 tasks[w].bird_data, now)
    /\ tasks' = [tasks EXCEPT ![w].pc = "return"]
    /\ UNCHANGED <<playbackVars, statusVars, now, current_recommendation, processed,
                   historyVars, call,
                   loggers, executed, initialized, reply, stops_in_row, db, broadcasts,
                   service_recommendation>>

\* update_recommendation, line 762: return self.current_recommendation
AlertReturn(w) ==
    /\ tasks[w].pc = "return"
    /\ tasks' = [tasks EXCEPT ![w].pc = "service_store",
                              ![w].tmp = current_recommendation]
    /\ UNCHANGED <<playbackVars, statusVars, now, engineVars, historyVars, call,
                   loggers, executed, initialized, reply, stops_in_row, db, broadcasts,
                   service_recommendation>>

\* process_bird_alert, line 57: self.current_recommendation = recommendation
AlertServiceStore(w) ==
    /\ tasks[w].pc = "service_store"
    /\ service_recommendation' = tasks[w].tmp
    /\ tasks' = [tasks EXCEPT ![w] = IdleTask]
    /\ UNCHANGED <<playbackVars, statusVars, now, engineVars, historyVars, call,
                   loggers, executed, initialized, reply, stops_in_row, db, broadcasts>>

\* the outcome of NextActionPanel.execute_manual_action as its caller sees it:
\* checked is the recommendation whose length the index was compared with,
\* selected_from the one the action was taken from
ManualOutcome(action_id, checked, selected_from, raised, result) ==
    [op |-> "NextActionPanel.execute_manual_action", action_id |-> action_id,
     checked |-> checked, selected_from |-> selected_from,
     raised |-> raised, result |-> result]

\* service execute_manual_action, line 123-132: the panel method submitted
ManualBegin(w, action_id) ==
    /\ tasks[w].pc = "idle"
    /\ initialized
    /\ tasks' = [tasks EXCEPT ![w] = [pc |-> "check_none",
                                      op |-> "execute_manual_action",
                                      action_id |-> action_id,
                                      checked |-> NoRecommendation]]
    /\ UNCHANGED <<playbackVars, statusVars, now, engineVars, historyVars, call,
                   loggers, executed, initialized, reply, stops_in_row, db, broadcasts,
                   service_recommendation>>

\* line 769-770: if not self.current_recommendation: return False
ManualCheckNone(w) ==
    /\ tasks[w].pc = "check_none"
    /\ IF current_recommendation = NoRecommendation
       THEN /\ tasks' = [tasks EXCEPT ![w] = IdleTask]
            /\ reply' = ManualOutcome(tasks[w].action_id, NoRecommendation,
                                      NoRecommendation, FALSE, FALSE)
       ELSE /\ tasks' = [tasks EXCEPT ![w].pc = "check_bound"]
            /\ UNCHANGED reply
    /\ UNCHANGED <<playbackVars, statusVars, now, engineVars, historyVars, call,
                   loggers, executed, initialized, stops_in_row, db, broadcasts,
                   service_recommendation>>

\* line 772: 0 <= action_id < len(self.current_recommendation.recommended_actions)
ManualCheckBound(w) ==
    /\ tasks[w].pc = "check_bound"
    /\ IF /\ 0 <= tasks[w].action_id
          /\ tasks[w].action_id < Len(current_recommendation.recommended_actions)
       THEN /\ tasks' = [tasks EXCEPT ![w].pc = "select",
                                      ![w].checked = current_recommendation]
            /\ UNCHANGED reply
       ELSE /\ tasks' = [tasks EXCEPT ![w] = IdleTask]
            /\ reply' = ManualOutcome(tasks[w].action_id, current_recommendation,
                                      NoRecommendation, FALSE, FALSE)
    /\ UNCHANGED <<playbackVars, statusVars, now, engineVars, historyVars, call,
                   loggers, executed, initialized, stops_in_row, db, broadcasts,
                   service_recommendation>>

\* line 773-778: action = self.current_recommendation.recommended_actions[
\* action_id], an IndexError when the list read now is shorter; then the
\* automated flag of the action decides the result
ManualSelect(w) ==
    /\ tasks[w].pc = "select"
    /\ LET actions == current_recommendation.recommended_actions
           action_id == tasks[w].action_id
       IN reply' = IF action_id >= Len(actions)
                   THEN ManualOutcome(action_id, tasks[w].checked,
                                      current_recommendation, TRUE, FALSE)
                   ELSE ManualOutcome(action_id, tasks[w].checked,
                                      current_recommendation, FALSE,
                                      ~actions[action_id + 1].automated)
    /\ tasks' = [tasks EXCEPT ![w] = IdleTask]
    /\ UNCHANGED <<playbackVars, statusVars, now, engineVars, historyVars, call,
                   loggers, executed, initialized, stops_in_row, db, broadcasts,
                   service_recommendation>>

RequestsNext ==
    \/ \E w \in Workers, a \in AlertInputs : AlertBegin(w, a)
    \/ \E w \in Workers : AlertPanelStore(w)
    \/ \E w \in Workers : AlertExecute(w)
    \/ \E w \in Workers : AlertReturn(w)
    \/ \E w \in Workers : AlertServiceStore(w)
    \/ \E w \in Workers, action_id \in ActionIds : ManualBegin(w, action_id)
    \/ \E w \in Workers : ManualCheckNone(w)
    \/ \E w \in Workers : ManualCheckBound(w)
    \/ \E w \in Workers : ManualSelect(w)

SpecRequests == Init /\ [][RequestsNext]_vars

----------------------------------------------------------------------------
(* Sound library: get_effective_predator_sound(bird_species, bird_behavior). *)
(* The species text is represented by the bird categories whose keywords it  *)
(* contains, the behaviour text by whether it contains "territorial" or      *)
(* "aggressive".                                                             *)

BirdCategories == <<"corvids", "passerines", "raptors", "waterfowl">>

\* self.predator_mappings
predator_mappings(category) ==
    CASE category = "corvids" -> {"hawk_screech", "eagle_cry", "falcon_call"}
      [] category = "passerines" -> {"cat_meow", "snake_hiss", "hawk_screech"}
      [] category = "raptors" -> {"owl_hoot", "hawk_screech"}
      [] category = "waterfowl" -> {"fox_bark", "coyote_howl", "hawk_screech"}
      [] OTHER -> {"hawk_screech", "eagle_cry", "owl_hoot"}

\* line 149-159: the first category one of whose keywords the text contains
bird_category(matched) ==
    IF \E i \in 1..Len(BirdCategories) : BirdCategories[i] \in matched
    THEN BirdCategories[CHOOSE i \in 1..Len(BirdCategories) :
                           /\ BirdCategories[i] \in matched
                           /\ \A j \in 1..(i - 1) : BirdCategories[j] \notin matched]
    ELSE "default"

aggressive_sounds == {"hawk_screech", "eagle_cry", "falcon_call"}

\* line 161-174: the sounds random.choice draws from
available_sounds(matched, aggressive, sound_cache) ==
    LET mapped == predator_mappings(bird_category(matched)) \cap sound_cache
        available == IF mapped = {} THEN sound_cache ELSE mapped
        aggressive_available == available \cap aggressive_sounds
    IN IF aggressive /\ aggressive_available # {}
       THEN aggressive_available
       ELSE available

\* line 177: random.choice(available_sounds) if available_sounds else
\* list(self.sound_cache.keys())[0]; the latter indexes an empty list, since
\* available_sounds is empty only when the cache is
get_effective_predator_sound(matched, aggressive, sound_cache) ==
    LET available == available_sounds(matched, aggressive, sound_cache)
    IN IF available # {}
       THEN {[raised |-> "no", sound |-> s] : s \in available}
       ELSE IF sound_cache # {}
       THEN {[raised |-> "no", sound |-> s] : s \in sound_cache}
       ELSE {[raised |-> "IndexError", sound |-> "none"]}

\* sounds a library may hold: mapped ones and one no mapping names
SoundFiles == {"hawk_screech", "eagle_cry", "cat_meow", "owl_hoot", "dog_bark"}

CallEffectiveSound(matched, aggressive, sound_cache) ==
    /\ call.fn = "none"
    /\ \E r \in get_effective_predator_sound(matched, aggressive, sound_cache) :
          call' = [fn |-> "get_effective_predator_sound",
                   matched |-> matched, aggressive |-> aggressive,
                   sound_cache |-> sound_cache, result |-> r]
    /\ UNCHANGED <<playbackVars, statusVars, now, engineVars, historyVars,
                   serviceVars, stops_in_row>>

----------------------------------------------------------------------------
(* Calls of the pure functions on inputs drawn from bounded sets; a behaviour *)
(* makes one call.                                                           *)

\* longest history handed to predict_behavioral_intent
MaxHistoryLen == 6

NoFeatures ==
    [present |-> FALSE, mfcc |-> FALSE,
     centroid |-> Missing, tempo |-> Missing, zcr |-> Missing]

\* feature summaries on both sides of every threshold of the classifier
FeatureInputs ==
    {NoFeatures} \cup
    [present : {TRUE}, mfcc : BOOLEAN,
     centroid : {Missing, 1500, 1501, 3000, 3001},
     tempo : {Missing, 150, 151, 180, 181},
     zcr : {Missing, 10, 11, 15, 16}]

SpeciesInputs == HIGH_RISK_SPECIES \cup {"Passer montanus"}

Urgencies == {"low", "medium", "high", "critical"}

PatternWith(alarm, territorial, flock, urgency) ==
    [DefaultPattern EXCEPT !.alarm_signal = alarm,
                           !.territorial_behavior = territorial,
                           !.flock_communication = flock,
                           !.urgency_level = urgency]

\* the patterns of a history differ in the two flags the predictor reads
HistoryPatterns ==
    {PatternWith(a, t, FALSE, "low") : a \in BOOLEAN, t \in BOOLEAN}

RECURSIVE SeqsUpTo(_, _)
SeqsUpTo(S, n) ==
    IF n = 0 THEN {<<>>}
    ELSE LET shorter == SeqsUpTo(S, n - 1)
         IN shorter \cup {Append(h, x) : h \in {g \in shorter : Len(g) = n - 1}, x \in S}

HistoryInputs == SeqsUpTo(HistoryPatterns, MaxHistoryLen)

ConfidenceInputs == {0, 10, 50, 88, 100}

BaseRiskInputs == {BaseRisk(sp) : sp \in SpeciesInputs} \cup {0, 100}

IntentInputs ==
    [primary_intent : Intents \cup {"unknown"},
     confidence : {Rat(0, 1), Rat(3, 7), Rat(1, 2), Rat(1, 1)}]

\* scores on and around the thresholds, in 1/100000
RiskInputs ==
    {Rat(n, 100000) :
        n \in {0, 15000, 40000, 40001, 60000, 60001, 80000, 80001, 100000}}

AlertLevels == {"LOW", "MEDIUM", "HIGH", "CRITICAL"}

CallAnalyzePatterns(f, sp) ==
    /\ call.fn = "none"
    /\ call' = [fn |-> "analyze_communication_patterns",
                features |-> f, species |-> sp,
                result |-> analyze_communication_patterns(f, sp)]
    /\ UNCHANGED <<playbackVars, statusVars, now, engineVars, historyVars,
                   serviceVars, stops_in_row>>

CallPredictIntent(p, h) ==
    /\ call.fn = "none"
    /\ call' = [fn |-> "predict_behavioral_intent",
                pattern |-> p, history |-> h,
                result |-> predict_behavioral_intent(p, h)]
    /\ UNCHANGED <<playbackVars, statusVars, now, engineVars, historyVars,
                   serviceVars, stops_in_row>>

CallRiskScore(base, c, p, intent) ==
    /\ call.fn = "none"
    /\ call' = [fn |-> "calculate_enhanced_risk_score",
                base_risk |-> base, confidence |-> c,
                pattern |-> p, intent |-> intent,
                result |-> RiskScoreFrom(base, c, p, intent)]
    /\ UNCHANGED <<playbackVars, statusVars, now, engineVars, historyVars,
                   serviceVars, stops_in_row>>

CallAlertLevel(r) ==
    /\ call.fn = "none"
    /\ call' = [fn |-> "alert_level", risk_score |-> r, result |-> AlertLevelFor(r)]
    /\ UNCHANGED <<playbackVars, statusVars, now, engineVars, historyVars,
                   serviceVars, stops_in_row>>

CallAssessThreat(bird_data) ==
    /\ call.fn = "none"
    /\ call' = [fn |-> "assess_threat_level", bird_data |-> bird_data,
                result |-> assess_threat_level(bird_data)]
    /\ UNCHANGED <<playbackVars, statusVars, now, engineVars, historyVars,
                   serviceVars, stops_in_row>>

CallGenerateRecommendation(bird_data) ==
    /\ call.fn = "none"
    /\ call' = [fn |-> "generate_next_action_recommendation", bird_data |-> bird_data,
                result |-> generate_next_action_recommendation(bird_data)]
    /\ UNCHANGED <<playbackVars, statusVars, now, engineVars, historyVars,
                   serviceVars, stops_in_row>>

FunctionsNext ==
    \/ /\ call.fn = "none"
       /\ \E f \in FeatureInputs, sp \in SpeciesInputs : CallAnalyzePatterns(f, sp)
    \/ /\ call.fn = "none"
       /\ \E a \in BOOLEAN, t \in BOOLEAN, fl \in BOOLEAN, h \in HistoryInputs :
             CallPredictIntent(PatternWith(a, t, fl, "low"), h)
    \/ /\ call.fn = "none"
       /\ \E base \in BaseRiskInputs, c \in ConfidenceInputs,
             a \in BOOLEAN, fl \in BOOLEAN, u \in Urgencies, intent \in IntentInputs :
             CallRiskScore(base, c, PatternWith(a, FALSE, fl, u), intent)
    \/ /\ call.fn = "none"
       /\ \E r \in RiskInputs : CallAlertLevel(r)
    \/ /\ call.fn = "none"
       /\ \E r \in RiskInputs, lvl \in AlertLevels, fl \in BOOLEAN :
             CallAssessThreat([species |-> "Corvus splendens", risk_score |-> r,
                               alert_level |-> lvl, flock_communication |-> fl])
    \/ /\ call.fn = "none"
       /\ \E r \in RiskInputs, lvl \in AlertLevels, fl \in BOOLEAN :
             CallGenerateRecommendation(
                 [species |-> "Corvus splendens", risk_score |-> r,
                  alert_level |-> lvl, flock_communication |-> fl])
    \/ /\ call.fn = "none"
       /\ \E matched \in SUBSET {BirdCategories[i] : i \in 1..Len(BirdCategories)},
             aggressive \in BOOLEAN, sound_cache \in SUBSET SoundFiles :
             CallEffectiveSound(matched, aggressive, sound_cache)

SpecFunctions == Init /\ [][FunctionsNext]_vars

----------------------------------------------------------------------------
(* The bounded histories.  The three stores share no state; a history run    *)
(* exercises one of them past its limit.  An entry is identified by its      *)
(* ordinal among the entries appended to the store.                          *)


Stores == {"analyzer", "engine", "app"}

AnalyzerAppend ==
    /\ store = "analyzer"
    /\ appended < ANALYZER_HISTORY_LIMIT + MaxOverflow
    /\ communication_history' = AnalyzerHistoryAppend(communication_history, appended + 1)
    /\ appended' = appended + 1
    /\ UNCHANGED <<playbackVars, statusVars, now, engineVars,
                   app_communication_history, store, call,
                   serviceVars, stops_in_row>>

EngineLog ==
    /\ store = "engine"
    /\ appended < RESPONSE_HISTORY_LIMIT + MaxOverflow
    /\ \E bird_data \in AlertInputs :
          /\ assess_threat_level(bird_data) = "LOW"
          /\ bird_data.flock_communication = FALSE
          /\ response_history' =
                log_action_execution(response_history,
                                     generate_low_threat_strategies[1],
                                     bird_data, appended + 1)
    /\ appended' = appended + 1
    /\ UNCHANGED <<playbackVars, statusVars, now, current_recommendation, processed,
                   communication_history, app_communication_history, store, call,
                   serviceVars, stops_in_row>>

AppAppend ==
    /\ store = "app"
    /\ appended < APP_HISTORY_LIMIT + MaxOverflow
    /\ app_communication_history' =
          AppHistoryAppend(app_communication_history, appended + 1)
    /\ appended' = appended + 1
    /\ UNCHANGED <<playbackVars, statusVars, now, engineVars,
                   communication_history, store, call,
                   serviceVars, stops_in_row>>

InitHistoryRun ==
    /\ InitPlayback
    /\ InitEngine
    /\ communication_history = <<>>
    /\ app_communication_history = <<>>
    /\ appended = 0
    /\ store \in Stores
    /\ InitService
    /\ call = [fn |-> "none"]

HistoryNext ==
    \/ AnalyzerAppend
    \/ EngineLog
    \/ AppAppend

SpecHistory == InitHistoryRun /\ [][HistoryNext]_vars

----------------------------------------------------------------------------
(* Confidence of a recommendation.  analyze_situation hands                  *)
(* _calculate_confidence_score the complexity factors and the historical     *)
(* context; the context is read from AIDecisionEngine.decision_history.      *)

\* self.decision_history = [] (line 243).  The list is read at line 378 and
\* no statement of the program appends to it or assigns it again.
decision_history == <<>>

\* _get_historical_context(bird_data): the incidents of the same species
get_historical_context(history, bird_data) ==
    [similar_incidents |->
        Cardinality({i \in 1..Len(history) : history[i].species = bird_data.species})]

\* _identify_complexity_factors(bird_data): the number of factors listed
identify_complexity_factors(bird_data) ==
    (IF bird_data.flock_communication THEN 1 ELSE 0)
    + (IF bird_data.territorial_behavior THEN 1 ELSE 0)
    + (IF bird_data.alarm_signal THEN 1 ELSE 0)
    + (IF bird_data.primary_intent \in {"territory_defense", "flock_gathering"}
       THEN 1 ELSE 0)

\* analyze_situation(bird_data), the parts the confidence score reads
analyze_situation(bird_data) ==
    [threat_level |-> assess_threat_level(bird_data),
     complexity_factors |-> identify_complexity_factors(bird_data),
     historical_context |-> get_historical_context(decision_history, bird_data)]

RECURSIVE SumSuccess(_)
SumSuccess(strategies) ==
    IF strategies = <<>> THEN 0
    ELSE Head(strategies).success_probability + SumSuccess(Tail(strategies))

\* max(0.0, min(1.0, x))
ClampUnit(x) ==
    IF x.num < 0 THEN Rat(0, 1) ELSE CapAtOne(x)

\* line 681-696 from the base confidence on, base in hundredths:
\* ((base + avg_strategy_success) / 2) - min(factors * 0.1, 0.3), clamped
ConfidenceFrom(base_confidence, factors, strategies) ==
    LET n == Len(strategies)
        reduction == IF factors * 10 < 30 THEN factors * 10 ELSE 30
    IN ClampUnit(Rat(base_confidence * n + SumSuccess(strategies) - 2 * n * reduction,
                     200 * n))

\* line 681, 688-690: base_confidence, in hundredths
base_confidence(historical_context) ==
    IF historical_context.similar_incidents > 5 THEN 90 ELSE 80

\* _calculate_confidence_score(analysis, strategies)
calculate_confidence_score(analysis, strategies) ==
    ConfidenceFrom(base_confidence(analysis.historical_context),
                   analysis.complexity_factors, strategies)

\* an alert with the communication analysis and the predicted intent the
\* complexity factors are read from
IncidentFrom(alert, territorial, alarm, primary_intent) ==
    [species |-> alert.species,
     risk_score |-> alert.risk_score,
     alert_level |-> alert.alert_level,
     flock_communication |-> alert.flock_communication,
     territorial_behavior |-> territorial,
     alarm_signal |-> alarm,
     primary_intent |-> primary_intent]

IncidentInputs ==
    {IncidentFrom(a, territorial, FALSE, intent) :
        a \in {x \in AlertInputs : x.risk_score \in {Rat(50, 100), Rat(90, 100)}},
        territorial \in BOOLEAN,
        intent \in {"feeding_behavior", "flock_gathering"}}

\* update_recommendation(bird_data) for one more detection of the species;
\* the confidence_score generate_next_action_recommendation (line 447-451)
\* gave the recommendation is kept with the number of earlier detections
ProcessIncident(bird_data) ==
    /\ processed < MaxSameSpecies
    /\ UpdateRecommendationEffect(bird_data)
    /\ LET analysis == analyze_situation(bird_data)
           strategies == strategy_templates(analysis.threat_level, bird_data)
       IN call' = [fn |-> "generate_next_action_recommendation",
                   bird_data |-> bird_data,
                   earlier |-> processed,
                   result |-> [similar_incidents |->
                                  analysis.historical_context.similar_incidents,
                               confidence_score |->
                                  calculate_confidence_score(analysis, strategies)]]
    /\ UNCHANGED <<stop_playback_event, playback_thread, threads, now>>
    /\ UNCHANGED statusVars
    /\ UNCHANGED historyVars /\ UNCHANGED serviceVars
    /\ UNCHANGED stops_in_row

IncidentNext == \E bird_data \in IncidentInputs : ProcessIncident(bird_data)

SpecIncidents == Init /\ [][IncidentNext]_vars

----------------------------------------------------------------------------
(* The pipeline for one detection: analyze_audio_with_ai builds the alert    *)
(* from the communication pattern (line 481-536), the alert handler hands it *)
(* to process_bird_alert, and update_recommendation stores the               *)
(* recommendation and runs the automated response.                           *)

\* analyze_audio_with_ai, line 486-531: the alert for one detection
DetectionAlert(species, confidence, p, historical_data) ==
    LET behavioral_intent == predict_behavioral_intent(p, historical_data)
        risk_score == calculate_enhanced_risk_score(species, confidence, p,
                                                    behavioral_intent)
    IN [species |-> species,
        confidence |-> confidence,
        risk_score |-> risk_score,
        alert_level |-> AlertLevelFor(risk_score).alert_level,
        recommended_action |-> AlertLevelFor(risk_score).recommended_action,
        flock_communication |-> p.flock_communication,
        territorial_behavior |-> p.territorial_behavior,
        alarm_signal |-> p.alarm_signal,
        primary_intent |-> behavioral_intent.primary_intent,
        intent_confidence |-> behavioral_intent.confidence,
        all_scores |-> behavioral_intent.all_scores]

\* the detections of a pipeline run: species inside and outside the high-risk
\* table, two BirdNET confidences (hundredths), every combination of the flags
PipelineInputs ==
    [species : {"Corvus splendens", "Passer montanus"},
     confidence : {50, 88},
     pattern : {PatternWith(a, t, fl, u) :
                   a \in BOOLEAN, t \in BOOLEAN, fl \in BOOLEAN, u \in {"low", "high"}}]

\* the own pattern appended to the history before the prediction reads it
ProcessDetectionEffect_AppendFirst(d) ==
    /\ LET alert == DetectionAlert(d.species, d.confidence, d.pattern,
                                   AnalyzerHistoryAppend(communication_history,
                                                         d.pattern))
       IN /\ call' = [fn |-> "analyze_audio_with_ai",
                      species |-> d.species, confidence |-> d.confidence,
                      pattern |-> d.pattern, history |-> communication_history,
                      result |-> alert]
          /\ UpdateRecommendationEffect(alert)
    /\ communication_history' = AnalyzerHistoryAppend(communication_history, d.pattern)
    /\ UNCHANGED <<stop_playback_event, playback_thread, threads, now>>
    /\ UNCHANGED statusVars
    /\ UNCHANGED <<app_communication_history, appended, store>>
    /\ UNCHANGED serviceVars
    /\ UNCHANGED stops_in_row

\* analyze_audio_with_ai, line 476-537, for one detection, and
\* update_recommendation for its alert: the prediction reads
\* self.communication_history (line 486-488), the pattern is appended after
\* the alert is built (line 535-537)
ProcessDetectionEffect(d) ==
    /\ LET alert == DetectionAlert(d.species, d.confidence, d.pattern,
                                   communication_history)
       IN /\ call' = [fn |-> "analyze_audio_with_ai",
                      species |-> d.species, confidence |-> d.confidence,
                      pattern |-> d.pattern, history |-> communication_history,
                      result |-> alert]
          /\ UpdateRecommendationEffect(alert)
    /\ communication_history' = AnalyzerHistoryAppend(communication_history, d.pattern)
    /\ UNCHANGED <<stop_playback_event, playback_thread, threads, now>>
    /\ UNCHANGED statusVars
    /\ UNCHANGED <<app_communication_history, appended, store>>
    /\ UNCHANGED serviceVars
    /\ UNCHANGED stops_in_row

\* one detection through analyze_audio_with_ai and update_recommendation
ProcessDetection(d) ==
    /\ processed < MaxDetections
    /\ ProcessDetectionEffect(d)

PipelineNext == \E d \in PipelineInputs : ProcessDetection(d)

SpecPipeline == Init /\ [][PipelineNext]_vars

\* the detections of a monitoring stream: the monitoring loop (line 636-646)
\* hands one chunk after another to analyze_audio_with_ai, which goes through
\* the detections of a chunk in order; the patterns differ in the two flags
\* the history rules read
StreamInputs ==
    [species : {"Corvus splendens"}, confidence : {88}, pattern : HistoryPatterns]

\* the next detection of the stream
ProcessStreamDetection(d) ==
    /\ processed < MaxStream
    /\ ProcessDetectionEffect(d)

StreamNext == \E d \in StreamInputs : ProcessStreamDetection(d)

SpecStream == Init /\ [][StreamNext]_vars

----------------------------------------------------------------------------
(* The monitoring loop on one audio chunk.  analyze_audio_with_ai returns at *)
(* once while the predator status is active; otherwise it saves the audio    *)
(* segment and, for each detection BirdNET reports, builds the alert,        *)
(* appends the pattern and calls the registered callbacks in order (line     *)
(* 541-543), all inside one try whose except returns [] (line 551-553).  The *)
(* first callback is the app's alert handler, which hands the alert to       *)
(* update_recommendation; the second is any other listener.                  *)

\* self.alert_callbacks after two add_alert_callback calls
Callbacks == {1, 2}

\* no callback raises while the chunk is analysed
NoRaise == [detection |-> 0, callback |-> 0]

\* which call callback(alert) raises, if any: the callback and the detection
Raisings(detections) ==
    {NoRaise} \cup [detection : 1..Len(detections), callback : Callbacks]

\* line 476-531 over the detections of the chunk, each prediction reading
\* the history as the detections before it left it
RECURSIVE ChunkAlerts(_, _)
ChunkAlerts(detections, history) ==
    IF detections = <<>> THEN <<>>
    ELSE LET d == Head(detections)
         IN <<DetectionAlert(d.species, d.confidence, d.pattern, history)>>
            \o ChunkAlerts(Tail(detections),
                           AnalyzerHistoryAppend(history, d.pattern))

\* line 535-537 for the first n detections of the chunk
RECURSIVE ChunkHistory(_, _, _)
ChunkHistory(history, detections, n) ==
    IF n = 0 THEN history
    ELSE ChunkHistory(AnalyzerHistoryAppend(history, Head(detections).pattern),
                      Tail(detections), n - 1)

\* execute_automated_response for the first m alerts, one after another
RECURSIVE ChunkLog(_, _, _)
ChunkLog(history, alerts, m) ==
    IF m = 0 THEN history
    ELSE ChunkLog(LogAll(history,
                         ExecutedActions(generate_next_action_recommendation(
                                            Head(alerts)).recommended_actions),
                         Head(alerts), now),
                  Tail(alerts), m - 1)

\* the detections whose pattern is appended: all, or up to the one whose
\* callback raises
Analysed(detections, raising) ==
    IF raising = NoRaise THEN Len(detections) ELSE raising.detection

\* the alerts callback k has returned from
Delivered(detections, raising, k) ==
    IF raising = NoRaise THEN Len(detections)
    ELSE IF k < raising.callback THEN raising.detection
    ELSE raising.detection - 1

\* the result of analyze_audio_with_ai and what it did on the way
ChunkOutcome(detections, raising, active, alerts) ==
    [fn |-> "analyze_audio_chunk", chunk |-> detections, raising |-> raising,
     active |-> active,
     history |-> communication_history,
     computed |-> IF active THEN <<>> ELSE SubSeq(alerts, 1, Analysed(detections, raising)),
     result |-> IF active \/ raising # NoRaise THEN <<>> ELSE alerts,
     segments_saved |-> IF active THEN 0 ELSE 1,
     delivered |-> [k \in Callbacks |->
                       IF active THEN 0 ELSE Delivered(detections, raising, k)]]

\* the chunk analysed whatever the predator status
AnalyzeChunk_NoSkip(detections, raising) ==
    /\ Len(communication_history) + Len(detections) <= MaxDetections
    /\ LET alerts == ChunkAlerts(detections, communication_history)
           m == Delivered(detections, raising, 1)
       IN /\ call' = ChunkOutcome(detections, raising, FALSE, alerts)
          /\ communication_history' =
                ChunkHistory(communication_history, detections,
                             Analysed(detections, raising))
          /\ current_recommendation' =
                IF m = 0 THEN current_recommendation
                ELSE generate_next_action_recommendation(alerts[m])
          /\ response_history' = ChunkLog(response_history, alerts, m)
          /\ processed' = processed + m
    /\ UNCHANGED <<playbackVars, statusVars, now,
                   app_communication_history, appended, store,
                   serviceVars, stops_in_row>>

\* analyze_audio_with_ai(audio_data) for a chunk in which BirdNET finds the
\* given detections
AnalyzeChunk(detections, raising) ==
    /\ Len(communication_history) + Len(detections) <= MaxDetections
    /\ IF is_predator_sound_active
       THEN /\ call' = ChunkOutcome(detections, raising, TRUE, <<>>)
            /\ UNCHANGED <<communication_history, engineVars>>
       ELSE LET alerts == ChunkAlerts(detections, communication_history)
                m == Delivered(detections, raising, 1)
            IN /\ call' = ChunkOutcome(detections, raising, FALSE, alerts)
               /\ communication_history' =
                     ChunkHistory(communication_history, detections,
                                  Analysed(detections, raising))
               /\ current_recommendation' =
                     IF m = 0 THEN current_recommendation
                     ELSE generate_next_action_recommendation(alerts[m])
               /\ response_history' = ChunkLog(response_history, alerts, m)
               /\ processed' = processed + m
    /\ UNCHANGED <<playbackVars, statusVars, now,
                   app_communication_history, appended, store,
                   serviceVars, stops_in_row>>

\* playback_loop, line 198: update_predator_status(True, 9999)
StatusStarted ==
    /\ SetStatus(TRUE, ARBITRARY_LONG_DURATION)
    /\ UNCHANGED <<playbackVars, now, engineVars, historyVars, call,
                   serviceVars, stops_in_row>>

\* playback_loop line 207, stop_predator_sound line 233:
\* update_predator_status(False)
StatusCleared ==
    /\ SetStatus(FALSE, 0)
    /\ UNCHANGED <<playbackVars, now, engineVars, historyVars, call,
                   serviceVars, stops_in_row>>

\* the chunks of a monitoring run: one or more detections each
ChunkInputs == UNION {[1..n -> StreamInputs] : n \in 1..MaxChunk}

\* chunks analysed while the status comes and goes; every callback returns
MonitorNext ==
    \/ \E detections \in ChunkInputs : AnalyzeChunk(detections, NoRaise)
    \/ StatusStarted
    \/ StatusCleared
    \/ LongWait

SpecMonitor == Init /\ [][MonitorNext]_vars

\* chunks analysed with the status inactive; a callback may raise
CallbacksNext ==
    \E detections \in ChunkInputs :
       \E raising \in Raisings(detections) : AnalyzeChunk(detections, raising)

SpecCallbacks == Init /\ [][CallbacksNext]_vars

----------------------------------------------------------------------------
(* Claims *)

AlivePlaybackThreads == {t \in ThreadIds : Alive(t)}

\* C1: at every instant at most one playback thread is alive, and once a
\* successful play has returned only the thread it started (the one recorded
\* in _playback_thread) is looping.
C1_AtMostOnePlaybackThread ==
    /\ Cardinality(AlivePlaybackThreads) <= 1
    /\ (caller.pc = "idle" /\ playback_thread # NoThread)
          => \A t \in ThreadIds : Looping(t) => t = playback_thread

\* C2: whenever a playback thread is still looping (status set, stop event not
\* yet observed), is_predator_sound_active() returns true.  Stated for the
\* instants at which no status duration of 9999 s has run out, so that only
\* the interleaving of play/stop with the threads' status updates decides it.
C2_LoopingImpliesActive ==
    now = StartTime =>
        \A t \in ThreadIds : Looping(t) => is_predator_sound_active


\* C3: a step of update_recommendation / execute_automated_response (the one
\* that counts a processed detection) leaves the player and the predator
\* status as they were, at every threat level.
C3_UpdateLeavesPlaybackAlone ==
    [][processed' # processed => UNCHANGED <<playbackVars, statusVars>>]_vars

\* a CRITICAL detection was processed, its automated EMERGENCY_STOP logged and
\* its automated SOUND_DETERRENT recommended, while a sound is looping
C3_Witness ==
    /\ processed > 0
    /\ current_recommendation.threat_level = "CRITICAL"
    /\ \E i \in 1..Len(current_recommendation.recommended_actions) :
          /\ current_recommendation.recommended_actions[i].action_type = "SOUND_DETERRENT"
          /\ current_recommendation.recommended_actions[i].automated
    /\ Len(response_history) > 0
    /\ \E t \in ThreadIds : Looping(t)

\* C4: calculate_enhanced_risk_score returns a value in [0.0, 1.0] for every
\* base risk and confidence in [0,1], pattern and prediction.
C4_RiskScoreInUnitInterval ==
    call.fn = "calculate_enhanced_risk_score" =>
        /\ call.result.den > 0
        /\ call.result.num >= 0
        /\ call.result.num <= call.result.den

\* every bonus and the largest multiplier stacked on base risk 1.0
C4_Witness ==
    /\ call.fn = "calculate_enhanced_risk_score"
    /\ call.base_risk = 100 /\ call.confidence = 100
    /\ call.pattern.alarm_signal /\ call.pattern.flock_communication
    /\ call.pattern.urgency_level = "critical"
    /\ call.intent.primary_intent = "landing_approach"
    /\ RatEq(call.intent.confidence, Rat(1, 1))
    /\ RatEq(call.result, Rat(1, 1))

UrgencyRank(u) ==
    CASE u = "low" -> 0 [] u = "medium" -> 1 [] u = "high" -> 2 [] u = "critical" -> 3

\* C5: within one analyze_communication_patterns call no later rule lowers the
\* urgency: the returned urgency is at least the urgency after the alarm rule
\* and after the rapid_succession rule, so it is critical once
\* rapid_succession (tempo > 180) has fired.
C5_UrgencyNeverLowered ==
    (/\ call.fn = "analyze_communication_patterns"
     /\ call.features.present /\ call.features.mfcc
     /\ call.features.centroid # Missing /\ call.features.zcr # Missing)
    => LET f == call.features
           tempo == IF f.tempo = Missing THEN 0 ELSE f.tempo
           afterAlarm == AlarmRule(FlockRule(CallTypeRule(DefaultPattern, f.centroid),
                                             tempo), f.zcr)
           afterRapid == RapidSuccessionRule(afterAlarm, AlarmPatterns(call.species),
                                             tempo)
       IN /\ UrgencyRank(call.result.urgency_level)
                >= UrgencyRank(afterAlarm.urgency_level)
          /\ UrgencyRank(call.result.urgency_level)
                >= UrgencyRank(afterRapid.urgency_level)
          /\ ("rapid_succession" \in AlarmPatterns(call.species) /\ tempo > 180)
                => call.result.urgency_level = "critical"

\* the entries of h among its last k that satisfy alarm / territorial
AlarmAmongLast(h, k) ==
    Cardinality({i \in 1..Len(h) : i > Len(h) - k /\ h[i].alarm_signal})

TerritorialAmongLast(h, k) ==
    Cardinality({i \in 1..Len(h) : i > Len(h) - k /\ h[i].territorial_behavior})

\* some additive contribution of the predictor is non-zero
AnyContribution(p, h) ==
    \/ p.alarm_signal
    \/ p.territorial_behavior
    \/ p.flock_communication
    \/ AlarmAmongLast(h, 5) > 2
    \/ TerritorialAmongLast(h, 5) > 1

RECURSIVE RatSumOver(_, _)
RatSumOver(scores, keys) ==
    IF keys = <<>> THEN Rat(0, 1)
    ELSE RatAdd(scores[Head(keys)], RatSumOver(scores, Tail(keys)))

\* C6: all_scores is over the five fixed intents, non-negative, and sums to 1
\* whenever a contribution was non-zero; otherwise it is exactly
\* normal_flight = 1.0 and every other intent 0.
C6_ScoresSumToOne ==
    call.fn = "predict_behavioral_intent" =>
        LET s == call.result.all_scores
        IN /\ DOMAIN s = Intents
           /\ \A k \in Intents : s[k].num >= 0 /\ s[k].den > 0
           /\ AnyContribution(call.pattern, call.history)
                 => RatEq(RatSumOver(s, IntentOrder), Rat(1, 1))
           /\ ~AnyContribution(call.pattern, call.history)
                 => \A k \in Intents :
                       RatEq(s[k], IF k = "normal_flight" THEN Rat(1, 1) ELSE Rat(0, 1))

\* only the history contributes, from a history longer than the window of 5
C6_Witness ==
    /\ call.fn = "predict_behavioral_intent"
    /\ ~call.pattern.alarm_signal
    /\ ~call.pattern.territorial_behavior
    /\ ~call.pattern.flock_communication
    /\ Len(call.history) > 5
    /\ AlarmAmongLast(call.history, 5) > 2
    /\ TerritorialAmongLast(call.history, 5) > 1
    /\ RatEq(call.result.all_scores["predator_avoidance"], Rat(3, 5))
    /\ RatEq(call.result.all_scores["territory_defense"], Rat(2, 5))

\* C7: primary_intent is the first intent, in the order landing_approach,
\* territory_defense, flock_gathering, predator_avoidance, normal_flight, whose
\* normalized weight is maximal, and confidence is its weight; alarm_signal and
\* flock_communication with nothing territorial and an empty history give
\* flock_gathering.
C7_PrimaryIsFirstMaximum ==
    call.fn = "predict_behavioral_intent" =>
        LET s == call.result.all_scores
            IsMax(i) == \A j \in 1..Len(IntentOrder) :
                            ~RatLess(s[IntentOrder[i]], s[IntentOrder[j]])
        IN /\ \E i \in 1..Len(IntentOrder) :
                 /\ call.result.primary_intent = IntentOrder[i]
                 /\ IsMax(i)
                 /\ \A j \in 1..(i - 1) : ~IsMax(j)
           /\ call.result.confidence = s[call.result.primary_intent]
           /\ (/\ call.pattern.alarm_signal
               /\ call.pattern.flock_communication
               /\ ~call.pattern.territorial_behavior
               /\ call.history = <<>>)
                 => call.result.primary_intent = "flock_gathering"

\* the tie of the claim's example: predator_avoidance and flock_gathering both 0.5
C7_Witness ==
    /\ call.fn = "predict_behavioral_intent"
    /\ call.pattern.alarm_signal
    /\ call.pattern.flock_communication
    /\ ~call.pattern.territorial_behavior
    /\ call.history = <<>>
    /\ RatEq(call.result.all_scores["predator_avoidance"],
             call.result.all_scores["flock_gathering"])
    /\ call.result.primary_intent = "flock_gathering"
    /\ RatEq(call.result.confidence, Rat(1, 2))

\* C8: alert level and action follow the strict thresholds 0.8, 0.6, 0.4; a
\* score exactly on a threshold falls in the lower tier.
C8_StrictThresholds ==
    call.fn = "alert_level" =>
        LET r == call.risk_score
            Above(n) == RatLess(Rat(n, 10), r)
            expected ==
                IF Above(8)
                THEN <<"CRITICAL", "IMMEDIATE_RUNWAY_CLOSURE">>
                ELSE IF Above(6) THEN <<"HIGH", "DELAY_TAKEOFF">>
                ELSE IF Above(4) THEN <<"MEDIUM", "INCREASE_MONITORING">>
                ELSE <<"LOW", "CONTINUE_NORMAL">>
        IN /\ <<call.result.alert_level, call.result.recommended_action>> = expected
           /\ RatEq(r, Rat(8, 10)) => call.result.alert_level = "HIGH"
           /\ RatEq(r, Rat(6, 10)) => call.result.alert_level = "MEDIUM"
           /\ RatEq(r, Rat(4, 10)) => call.result.alert_level = "LOW"

\* a score of exactly 0.8 is HIGH / DELAY_TAKEOFF
C8_Witness ==
    /\ call.fn = "alert_level"
    /\ RatEq(call.risk_score, Rat(8, 10))
    /\ call.result.alert_level = "HIGH"
    /\ call.result.recommended_action = "DELAY_TAKEOFF"

LevelRank(l) ==
    CASE l = "LOW" -> 0 [] l = "MEDIUM" -> 1 [] l = "HIGH" -> 2 [] l = "CRITICAL" -> 3

\* C9: the ThreatLevel is CRITICAL when risk > 0.8 or the alert is CRITICAL,
\* else HIGH when risk > 0.6 or the alert is HIGH or flock_communication, else
\* MEDIUM when risk > 0.4 or the alert is MEDIUM, else LOW; it is never lower
\* than the AlertLevel, and when the alert level is the analyzer's (derived
\* from the same score) the two differ exactly when flock_communication is
\* true and risk <= 0.6.
C9_ThreatLevelRule ==
    call.fn = "assess_threat_level" =>
        LET b == call.bird_data
            r == b.risk_score
            Above(n) == RatLess(Rat(n, 10), r)
            expected ==
                IF Above(8) \/ b.alert_level = "CRITICAL" THEN "CRITICAL"
                ELSE IF Above(6) \/ b.alert_level = "HIGH" \/ b.flock_communication
                THEN "HIGH"
                ELSE IF Above(4) \/ b.alert_level = "MEDIUM" THEN "MEDIUM"
                ELSE "LOW"
        IN /\ call.result = expected
           /\ LevelRank(call.result) >= LevelRank(b.alert_level)
           /\ b.alert_level = AlertLevelFor(r).alert_level
                 => ((call.result # b.alert_level)
                        <=> (b.flock_communication /\ ~Above(6)))

\* a flock at a score of 0.15: the analyzer says LOW, the engine HIGH
C9_Witness ==
    /\ call.fn = "assess_threat_level"
    /\ call.bird_data.flock_communication
    /\ RatLess(call.bird_data.risk_score, Rat(4, 10))
    /\ call.bird_data.alert_level = "LOW"
    /\ call.bird_data.alert_level = AlertLevelFor(call.bird_data.risk_score).alert_level
    /\ call.result = "HIGH"

\* h holds exactly the last min(n, limit) of the entries 1..n, oldest first
HoldsMostRecent(h, n, limit) ==
    /\ Len(h) = (IF n <= limit THEN n ELSE limit)
    /\ \A i \in 1..Len(h) : h[i] = n - Len(h) + i

\* C10: each bounded history holds at most its limit of entries (100 for the
\* analyzer's communication_history, 1000 for response_history, 1000 for the
\* app-level communication_history), and they are exactly the most recently
\* appended ones in insertion order.
C10_HistoriesHoldMostRecent ==
    /\ HoldsMostRecent(communication_history,
                       IF store = "analyzer" THEN appended ELSE 0,
                       ANALYZER_HISTORY_LIMIT)
    /\ HoldsMostRecent([i \in 1..Len(response_history) |-> response_history[i].timestamp],
                       IF store = "engine" THEN appended ELSE 0,
                       RESPONSE_HISTORY_LIMIT)
    /\ HoldsMostRecent(app_communication_history,
                       IF store = "app" THEN appended ELSE 0,
                       APP_HISTORY_LIMIT)

\* entries were appended to response_history beyond its limit and evicted
C10_Witness ==
    /\ store = "engine"
    /\ appended > RESPONSE_HISTORY_LIMIT + 1
    /\ Len(response_history) = RESPONSE_HISTORY_LIMIT
    /\ response_history[1].timestamp = appended - RESPONSE_HISTORY_LIMIT + 1


LoggersQuiet == \A w \in Workers : loggers[w].pc = "idle"

\* C11: every executed automated action is in response_history exactly once
\* and in execution order (up to the eviction to the last 1000), whenever no
\* thread is inside _log_action_execution, also after two threads' appends and
\* evictions have interleaved.
C11_EveryExecutedActionLoggedOnce ==
    LoggersQuiet =>
        /\ HoldsMostRecent([i \in 1..Len(response_history) |->
                               response_history[i].timestamp],
                           executed, RESPONSE_HISTORY_LIMIT)
        /\ \A i \in 1..Len(response_history) :
              /\ response_history[i].action = "EMERGENCY_STOP"
              /\ response_history[i].species = "Corvus splendens"
              /\ response_history[i].threat_level = "CRITICAL"

\* C12: execute_manual_action(action_id) returns true only (and exactly) when
\* a current recommendation exists, 0 <= action_id < the number of its actions
\* and the action at that index is not automated; otherwise it returns false;
\* it never raises.
C12_ManualActionResult ==
    reply.op = "execute_manual_action" =>
        LET actions == reply.recommendation.recommended_actions
            valid == /\ reply.initialized
                     /\ reply.current > 0
                     /\ reply.action_id >= 0
                     /\ reply.action_id < Len(actions)
                     /\ \E i \in 1..Len(actions) :
                           i = reply.action_id + 1 /\ ~actions[i].automated
        IN /\ ~reply.raised
           /\ reply.result.kind = "bool"
           /\ reply.result.value <=> valid

\* the manual DELAY (index 1) of a HIGH recommendation is executed, and a
\* request one past the last index was refused before
C12_Witness ==
    /\ reply.op = "execute_manual_action"
    /\ reply.recommendation.threat_level = "HIGH"
    /\ reply.action_id = 1
    /\ reply.recommendation.recommended_actions[2].action_type = "DELAY"
    /\ reply.result.value

\* C13: a manual action request meant for a recommendation that has been
\* overwritten by a newer one, or that never existed, returns failure and does
\* not raise; no action of the newer recommendation is executed in its place.
C13_StaleRequestFails ==
    (/\ reply.op = "execute_manual_action"
     /\ reply.target # reply.current)
    => /\ ~reply.raised
       /\ ~reply.result.value

TaggedNotInitialized(result) ==
    result.kind = "dict" /\ result.status = "not_initialized"

ServiceRequests ==
    {"process_bird_alert", "get_current_recommendation", "execute_manual_action",
     "get_system_status", "get_predator_sounds_status"}

\* C14: while the service is not initialized, every query and action on it
\* returns a result tagged as not initialized, does not raise, and leaves the
\* strategic system and the sound player untouched.
C14_NotInitializedIsTagged ==
    [][(reply' # reply /\ reply'.op \in ServiceRequests /\ ~reply'.initialized)
          => /\ ~reply'.raised
             /\ TaggedNotInitialized(reply'.result)
             /\ UNCHANGED <<engineVars, playbackVars, statusVars>>]_vars

\* C15: once stop_predator_sound has completed, the stop event is set, no
\* playback thread is recorded and the predator status is inactive, and every
\* step of a further stop_predator_sound call (with no playback started in
\* between, also when nothing is playing) leaves exactly that state: a second
\* call ends in the state of a single call.  The model of stop_predator_sound
\* has no raising step: the only call that can raise, pygame.mixer.stop(), is
\* inside try/except.
C15_StopIsIdempotent ==
    stops_in_row >= 1 =>
        /\ stop_playback_event
        /\ playback_thread = NoThread
        /\ ~is_predator_playing
        /\ ~is_predator_sound_active

\* a second stop in a row has completed after a sound had been started
C15_Witness ==
    /\ stops_in_row = 2
    /\ caller.pc = "idle"
    /\ caller.op = "stop"
    /\ Born # {}
    /\ stop_playback_event
    /\ playback_thread = NoThread
    /\ ~is_predator_sound_active

\* C16: with an empty sound library get_effective_predator_sound returns an
\* error result, the same for every species and behaviour text, and does not
\* raise.
C16_EmptyLibraryReturnsError ==
    (call.fn = "get_effective_predator_sound" /\ call.sound_cache = {})
    => /\ call.result.raised = "no"
       /\ call.result.sound \notin SoundFiles

\* C17: when saving the detection or the alert fails while an alert is
\* handled, the handler still generates the recommendation, stores it as the
\* current one and broadcasts the alert.
C17_StoreFailureIsNotFatal ==
    [][(/\ reply' # reply
        /\ reply'.op = "enhanced_websocket_alert_handler"
        /\ reply'.initialized
        /\ (~reply'.detection_saved \/ ~reply'.alert_saved))
          => /\ processed' = processed + 1
             /\ current_recommendation' =
                   generate_next_action_recommendation(reply'.alert)
             /\ broadcasts' = broadcasts + 1]_vars

\* C18: once more than 5 earlier detections of the species have been
\* processed, the next recommendation's confidence score is computed from the
\* base 0.9; with 5 or fewer earlier detections it is computed from 0.8
C18_HistoricalBonusAfterFive ==
    call.fn = "generate_next_action_recommendation"
        => RatEq(call.result.confidence_score,
                 ConfidenceFrom(IF call.earlier > 5 THEN 90 ELSE 80,
                                identify_complexity_factors(call.bird_data),
                                current_recommendation.recommended_actions))

\* C19: when the features are missing (extraction returned nothing) or a
\* required feature ('mfcc', 'spectral_centroid', 'zero_crossing_rate') is
\* absent, analyze_communication_patterns returns the all-default pattern
C19_MissingFeaturesGiveDefault ==
    (/\ call.fn = "analyze_communication_patterns"
     /\ \/ ~call.features.present
        \/ ~call.features.mfcc
        \/ call.features.centroid = Missing
        \/ call.features.zcr = Missing)
        => call.result = DefaultPattern

\* the detection of the scenario: House Crow at confidence 0.88, alarm,
\* territorial and flock flags set, urgency high, no earlier pattern
HouseCrowScenario ==
    /\ call.fn = "analyze_audio_with_ai"
    /\ call.species = "Corvus splendens"
    /\ call.confidence = 88
    /\ call.pattern = PatternWith(TRUE, TRUE, TRUE, "high")
    /\ call.history = <<>>

SoundDeterrents(actions) ==
    {i \in 1..Len(actions) : actions[i].action_type = "SOUND_DETERRENT"}

\* C20: the House Crow scenario yields primary_intent territory_defense or
\* flock_gathering with confidence > 0, risk_score > 0.6, alert level HIGH or
\* CRITICAL, and a recommendation with exactly one SOUND_DETERRENT action,
\* automated, that is not executed: nothing is logged for it and no playback
\* is requested
C20_HouseCrowScenario ==
    HouseCrowScenario
        => LET actions == current_recommendation.recommended_actions
           IN /\ call.result.primary_intent \in {"territory_defense", "flock_gathering"}
              /\ RatLess(Rat(0, 1), call.result.intent_confidence)
              /\ RatLess(Rat(6, 10), call.result.risk_score)
              /\ call.result.alert_level \in {"HIGH", "CRITICAL"}
              /\ Cardinality(SoundDeterrents(actions)) = 1
              /\ \A i \in SoundDeterrents(actions) : actions[i].automated
              /\ \A i \in 1..Len(response_history) :
                    response_history[i].action # "SOUND_DETERRENT"
              /\ caller = Idle
              /\ playback_thread = NoThread
              /\ ~is_predator_playing

\* the scenario has run: the alert is CRITICAL and the emergency stop of the
\* same recommendation was executed and logged
C20_Witness ==
    /\ HouseCrowScenario
    /\ call.result.alert_level = "CRITICAL"
    /\ current_recommendation.threat_level = "CRITICAL"
    /\ Len(response_history) = 1
    /\ response_history[1].action = "EMERGENCY_STOP"

\* no request is in flight in the service
TasksQuiet == \A w \in Workers : tasks[w].pc = "idle"

\* C21: once the process_bird_alert calls have completed, the service's
\* current recommendation is the panel's, also when two alerts were processed
\* concurrently
C21_SingleCurrentRecommendation ==
    TasksQuiet => service_recommendation = current_recommendation

\* C27: NextActionPanel.execute_manual_action, once the index passed the
\* bound check, raises no index error and takes the action from the
\* recommendation whose bounds it checked, also when update_recommendation
\* replaces the recommendation meanwhile
C27_ManualActionOnCheckedRecommendation ==
    (/\ reply.op = "NextActionPanel.execute_manual_action"
     /\ reply.selected_from # NoRecommendation)
        => /\ ~reply.raised
           /\ reply.selected_from = reply.checked

\* C22: the prediction for a detection reads the patterns of the detections
\* before it and not its own; of these the last (up to) 5 decide the history
\* contributions, +0.3 predator_avoidance exactly when more than 2 had
\* alarm_signal and +0.2 territory_defense exactly when more than 1 had
\* territorial_behavior; the own pattern is appended after the prediction.
\* communication_history before the step holds the patterns of all earlier
\* detections in arrival order; a raw score is the numerator, in tenths.
C22_PredictionReadsPrecedingFive ==
    [][(call' # call /\ call'.fn = "analyze_audio_with_ai")
         => LET preceding == communication_history
                own == call'.pattern
                scores == call'.result.all_scores
            IN /\ Len(preceding) = processed
               /\ call'.history = preceding
               /\ scores["predator_avoidance"].num =
                     (IF own.alarm_signal THEN 4 ELSE 0)
                     + (IF AlarmAmongLast(preceding, 5) > 2 THEN 3 ELSE 0)
               /\ scores["territory_defense"].num =
                     (IF own.territorial_behavior THEN 3 ELSE 0)
                     + (IF TerritorialAmongLast(preceding, 5) > 1 THEN 2 ELSE 0)
               /\ communication_history' = Append(preceding, own)
               /\ processed' = processed + 1]_vars

\* a seventh detection without alarm whose five predecessors held three
\* alarms: only the history gives predator_avoidance its weight
C22_Witness ==
    /\ call.fn = "analyze_audio_with_ai"
    /\ Len(call.history) = 6
    /\ ~call.pattern.alarm_signal
    /\ AlarmAmongLast(call.history, 5) = 3
    /\ ~call.history[1].alarm_signal
    /\ call.result.all_scores["predator_avoidance"].num = 3
    /\ Len(communication_history) = 7

\* C23: a chunk handed to analyze_audio_with_ai while the predator status is
\* active yields the empty list and changes nothing: no pattern appended, no
\* audio segment saved, no callback called, no recommendation generated
C23_ActiveStatusSuppressesAnalysis ==
    [][(is_predator_sound_active /\ call' # call /\ call'.fn = "analyze_audio_chunk")
         => /\ call'.result = <<>>
            /\ call'.segments_saved = 0
            /\ \A k \in Callbacks : call'.delivered[k] = 0
            /\ UNCHANGED <<communication_history, current_recommendation,
                           response_history, processed>>]_vars

\* a chunk was analysed and skipped while the status was active, after an
\* earlier chunk had been analysed
C23_Witness ==
    /\ call.fn = "analyze_audio_chunk"
    /\ call.active
    /\ is_predator_sound_active
    /\ call.history # <<>>
    /\ communication_history = call.history

\* C25: an exception raised by one alert callback is isolated: the other
\* callback still receives every alert, every detection of the chunk is still
\* processed and analyze_audio_with_ai returns the alerts it computed
C25_CallbackFailureIsolated ==
    (/\ call.fn = "analyze_audio_chunk"
     /\ ~call.active
     /\ call.raising # NoRaise)
        => /\ \A k \in Callbacks \ {call.raising.callback} :
                 call.delivered[k] = Len(call.chunk)
           /\ Len(communication_history) = Len(call.history) + Len(call.chunk)
           /\ call.result = call.computed
           /\ Len(call.result) = Len(call.chunk)

\* C24: play_predator_sound returns true exactly when the sound is in the
\* loaded library; when it has returned false no playback task was started
\* (no new thread, no thread handle) and whatever played before the call has
\* been stopped: the stop event is set and the predator status is inactive
C24_FailedPlayLeavesNothingActive ==
    (caller.pc = "idle" /\ caller.op = "play")
        => /\ (caller.result = "true") <=> (caller.sound \in SoundCache)
           /\ (caller.result = "false") <=> (caller.sound \notin SoundCache)
           /\ caller.result = "false"
                 => /\ playback_thread = NoThread
                    /\ \A t \in ThreadIds : threads[t].pc # "begin"
                    /\ stop_playback_event
                    /\ ~is_predator_playing
                    /\ ~is_predator_sound_active

\* a play of an unknown sound has returned false while the thread of the
\* sound started before it is still inside its sleep
C24_Witness ==
    /\ caller.pc = "idle"
    /\ caller.op = "play"
    /\ caller.result = "false"
    /\ \E t \in ThreadIds : threads[t].pc = "sleeping"

\* stop_predator_sound has returned to its caller
StopReturned == caller.pc = "idle" /\ caller.op = "stop"

\* no playback thread is alive and the predator status is off
PlaybackQuiet ==
    /\ AlivePlaybackThreads = {}
    /\ ~is_predator_playing

\* C26: once stop_predator_sound has returned and no play follows, every
\* playback thread that was alive observes the stop event and terminates and
\* the predator status stays inactive from then on, also when the join timed
\* out and stop returned without waiting for the thread
C26_StopIsEventuallyEffective ==
    []((StopReturned /\ [](caller.op # "play")) => <>[]PlaybackQuiet)

\* stop has returned while the thread it joined is still inside its sleep
C26_Witness ==
    /\ StopReturned
    /\ \E t \in ThreadIds : threads[t].pc = "sleeping"
    /\ stop_playback_event

\* the automated actions of a recommendation, by type
AutomatedTypes(recommendation) ==
    {recommendation.recommended_actions[i].action_type :
        i \in {j \in 1..Len(recommendation.recommended_actions) :
                  recommendation.recommended_actions[j].automated}}

\* the step logged exactly one execution, of the given action type
LoggedOne(action_type) ==
    /\ Len(response_history') = Len(response_history) + 1
    /\ SubSeq(response_history', 1, Len(response_history)) = response_history
    /\ response_history'[Len(response_history')].action = action_type

\* C28: the automated response update_recommendation runs for a detection
\* leaves response_history unchanged when the detection's recommendation is
\* at HIGH threat, whose only automated action is the skipped SOUND_DETERRENT,
\* and logs exactly one execution otherwise: MONITOR for LOW and MEDIUM,
\* EMERGENCY_STOP for CRITICAL
C28_HighThreatExecutesNothing ==
    [][\A w \in Workers :
          (tasks[w].pc = "execute" /\ tasks'[w].pc = "return")
             => LET rec == generate_next_action_recommendation(tasks[w].bird_data)
                IN /\ rec.threat_level = "HIGH"
                        => /\ AutomatedTypes(rec) = {"SOUND_DETERRENT"}
                           /\ response_history' = response_history
                           /\ UNCHANGED <<playbackVars, statusVars>>
                   /\ rec.threat_level \in {"LOW", "MEDIUM"} => LoggedOne("MONITOR")
                   /\ rec.threat_level = "CRITICAL"
                        => LoggedOne("EMERGENCY_STOP")]_vars

\* C29: a recommendation at MEDIUM threat never contains the DELAY action:
\* a detection with flock_communication set is at HIGH or CRITICAL threat, so
\* a MEDIUM recommendation has exactly two actions, SOUND_DETERRENT at
\* priority 1 and MONITOR at priority 2, both automated
C29_MediumNeverDelays ==
    call.fn = "generate_next_action_recommendation" =>
        LET actions == call.result.recommended_actions
        IN /\ call.bird_data.flock_communication
                => call.result.threat_level \in {"HIGH", "CRITICAL"}
           /\ call.result.threat_level = "MEDIUM"
                => /\ Len(actions) = 2
                   /\ actions[1].action_type = "SOUND_DETERRENT"
                   /\ actions[1].priority = 1
                   /\ actions[2].action_type = "MONITOR"
                   /\ actions[2].priority = 2
                   /\ \A i \in 1..Len(actions) :
                         /\ actions[i].automated
                         /\ actions[i].action_type # "DELAY"

C29_Witness ==
    /\ call.fn = "generate_next_action_recommendation"
    /\ call.result.threat_level = "MEDIUM"
    /\ call.bird_data.alert_level = "MEDIUM"
    /\ ~call.bird_data.flock_communication

\* C30: predict_behavioral_intent never returns landing_approach as the
\* primary intent, so the 1.5 multiplier is never applied and the factor
\* calculate_enhanced_risk_score derives from the prediction lies between
\* 0.8 and 1.3
C30_LandingApproachNeverPredicted ==
    call.fn = "predict_behavioral_intent" =>
        /\ call.result.primary_intent # "landing_approach"
        /\ IntentMultiplier(call.result.primary_intent) # 15
        /\ ~RatLess(IntentFactor(call.result), Rat(8, 10))
        /\ ~RatLess(Rat(13, 10), IntentFactor(call.result))

C30_Witness ==
    /\ call.fn = "predict_behavioral_intent"
    /\ call.pattern.flock_communication
    /\ call.pattern.territorial_behavior
    /\ Len(call.history) = MaxHistoryLen
    /\ call.result.primary_intent = "territory_defense"
    /\ RatLess(Rat(1, 1), IntentFactor(call.result))

====
